---- MODULE Spec2Model ----
(***************************************************************************)
(* MicroCrop data processor: the satellite-subscription lifecycle, the     *)
(* Celery task execution contract, the damage-evidence preparation step,   *)
(* the WeatherXM client, the per-plot command rate limit, the periodic     *)
(* sweeps, the time-series store, the weather indexing engine, the biomass *)
(* reducer and cache, and the WebSocket connection manager.  Each          *)
(* subsystem has its own specification (SpecSub, SpecTask, SpecBundle,     *)
(* SpecWx, SpecApi, SpecRetry, SpecTable, SpecBeat, SpecSweep, SpecStore,  *)
(* SpecIndex, SpecBiomass, SpecCache, SpecHistory, SpecWs, SpecLoop,       *)
(* SpecTrig, SpecPayout) over its own variables; the variables of the      *)
(* other subsystems stay at their initial values.                          *)
(***************************************************************************)
EXTENDS Integers, Sequences, FiniteSets, TLC

VARIABLES
    \* ---- planet_subscriptions row and the three writers of its status
    subStatus,      \* planet_subscriptions.status of the one subscription
    subEnd,         \* planet_subscriptions.end_date
    subUpdatedAt,   \* planet_subscriptions.updated_at (0 = NULL)
    subHistory,     \* subscription_status_history rows
    subNow,         \* datetime.utcnow()
    checkPc,        \* position of _check_active_subscriptions_async
    expPc,          \* position of _cancel_expired_subscriptions_async
    cmdPc,          \* position of the DELETE /subscription/{id} handler
    \* ---- Celery task instances
    tasks,          \* the task messages published so far, by order of publication
    lostCount,      \* worker processes lost so far
    quarantine,     \* rows written for tasks that failed for good
    \* ---- evidence preparation (_calculate_damage_assessment)
    bundNow,        \* datetime.now(), in clock ticks
    weatherRows,    \* timestamps of the weather_indices rows (the same for every plot)
    satCount,       \* satellite images the window query returns
    assessments,    \* rows of damage_assessments
    published,      \* content identifiers returned by the content-addressed store
    invocations,    \* the invocations of the function, by worker slot
    \* ---- WeatherXMClient shared by the coroutines of one process
    wxNow,          \* datetime.utcnow(), in seconds
    request_count,  \* WeatherXMClient.request_count
    request_window_start,   \* WeatherXMClient.request_window_start
    coros,          \* the coroutines calling get_station_data
    wxIssued,       \* times of the upstream requests of the last minute
    \* ---- POST /damage/assess for one plot and its rate-limit key in Redis
    apiNow,         \* wall clock, in seconds
    rlCount,        \* value of rate_limit:api_rate_limit:damage:{plot} (0 = no key)
    rlExpireAt,     \* when the key expires (-1 = no expiry set)
    rlGen,          \* how many times the key has been created
    redisFailures,  \* failed Redis commands so far
    handlers,       \* the running assess_damage handlers
    apiAccepted,    \* times of the requests of the last hour that enqueued a task
    acceptedByGen,  \* per creation of the key, the counted requests that were accepted
    lastAnswer,     \* the latest answer of the handler and the counter value it saw
    \* ---- the try / except wrapper of the task functions
    jobs,           \* per task function, the one task instance followed
    \* ---- the planet_subscriptions table and the upstream provider
    subsTable,      \* rows of planet_subscriptions, in order of insertion
    planetSubs,     \* ids of the subscriptions live at the upstream provider
    planetCreated,  \* subscriptions the upstream provider has created so far
    tableNow,       \* datetime.utcnow()
    \* ---- Celery beat and one subscription left to the scheduler
    beatNow,        \* wall clock
    beatFired,      \* names of the tasks beat has published so far
    beatSubStatus,  \* planet_subscriptions.status of the subscription
    beatSubEnd,     \* planet_subscriptions.end_date of the subscription
    \* ---- the weather sweep on one plot
    sweepNow,       \* wall clock, in seconds
    markerExpireAt, \* when weather_fetch:{plot_id} expires (-1 = no such key)
    cacheFailures,  \* failed Redis commands so far
    execs,          \* the executions of fetch_all_weather_updates, by firing
    samples,        \* weather_data rows stored for the plot
    \* ---- the time-series store and the processes connected to it
    storeConnected, \* per process, whether its TimescaleClient has connected
    rowsInserted,   \* rows inserted so far (the next row's identity)
    weatherData,    \* rows of weather_data
    satelliteImages,    \* rows of satellite_images
    damageAssessments,  \* rows of damage_assessments
    \* ---- the weather indexing engine
    idxSamples,   \* the window of samples, in timestamp order
    idxDays,   \* (end_date - start_date).days + 1
    idxResult,   \* what calculate_weather_indices returned or raised
    idxTask,  \* how _process_weather_indices ended and what it wrote
    \* ---- the biomass reducer
    bioValues,   \* biomass_proxy of the delivered samples, sorted by date
    bioResult,  \* what get_biomass_timeseries returned or raised
    \* ---- the biomass cache table
    cacheNow,   \* the clock, in days
    observed,   \* observation dates the subscription has delivered (1..observed)
    bioCache,  \* rows of biomass_data_cache for the plot
    \* ---- WeatherXMClient.get_historical_weather
    histWindow,   \* the requested [start_date, end_date]
    histStations,   \* the answer of get_nearby_stations with each station's data answer
    histReturned,  \* the list get_historical_weather returned
    \* ---- ConnectionManager of api/websocket.py
    active_connections,   \* ConnectionManager.active_connections, by plot_id
    all_connections,   \* ConnectionManager.all_connections
    wsEndpoints,   \* per socket, the plot_id its endpoint connected with
    bcast,  \* the broadcast call in progress or last ended
    \* ---- one execution of fetch_all_weather_updates
    loopPlots,   \* per plot of the query result, how its iteration goes
    loopRun,  \* position, counters and end of the execution
    \* ---- the trigger sweeps on one plot
    trigNow,   \* NOW(), in minutes after the weather_indices row
    trigFired,   \* the sweeps that have run at the current firing
    trigEnqueued,   \* calculate_damage_assessment tasks enqueued for the plot so far
    trigQueued,   \* those not yet executed
    trigAssessed,  \* a damage_assessments row of the plot ends within the last day
    \* ---- process_pending_payouts on one assessment
    payoutRow,   \* the damage_assessments row of one assessment
    payoutRuns,   \* the runs of process_pending_payouts
    handedOver   \* assess_damage_on_chain tasks enqueued for the assessment

subVars == <<subStatus, subEnd, subUpdatedAt, subHistory, subNow, checkPc, expPc, cmdPc>>
taskVars == <<tasks, lostCount, quarantine>>
bundVars == <<bundNow, weatherRows, satCount, assessments, published, invocations>>
wxVars == <<wxNow, request_count, request_window_start, coros, wxIssued>>
apiVars == <<apiNow, rlCount, rlExpireAt, rlGen, redisFailures, handlers, apiAccepted,
             acceptedByGen, lastAnswer>>

coreVars == <<subVars, taskVars, bundVars, wxVars, apiVars>>
retryVars == <<jobs>>
tableVars == <<subsTable, planetSubs, planetCreated, tableNow>>
beatVars == <<beatNow, beatFired, beatSubStatus, beatSubEnd>>
sweepVars == <<sweepNow, markerExpireAt, cacheFailures, execs, samples>>
storeVars == <<storeConnected, rowsInserted, weatherData, satelliteImages, damageAssessments>>
indexVars == <<idxSamples, idxDays, idxResult, idxTask>>
biomassVars == <<bioValues, bioResult>>
cacheVars == <<cacheNow, observed, bioCache>>
historyVars == <<histWindow, histStations, histReturned>>
wsVars == <<active_connections, all_connections, wsEndpoints, bcast>>
loopVars == <<loopPlots, loopRun>>
trigVars == <<trigNow, trigFired, trigEnqueued, trigQueued, trigAssessed>>
payoutVars == <<payoutRow, payoutRuns, handedOver>>
extVars == <<retryVars, tableVars, beatVars, sweepVars, storeVars, indexVars, biomassVars, cacheVars, historyVars, wsVars, loopVars, trigVars, payoutVars>>

vars == <<coreVars, extVars>>

(***************************************************************************)
(* Bounds of the model.                                                    *)
(***************************************************************************)
MaxNow == 3
MaxTasks == 2
MaxLost == 1
MaxBundNow == 3
MaxWxNow == 80
NumCoros == 2
MaxApiNow == 3600
NumHandlers == 2
MaxCount == 7
MaxRedisFailures == 1

(***************************************************************************)
(* Satellite subscription lifecycle                                        *)
(***************************************************************************)
Terminal == {"cancelled", "expired", "failed"}

\* A NULL end_date.
NoEndDate == 0 - 1

\* The row as create_subscription inserts it: status 'active'.  The INSERT
\* names no end_date, the column is filled by the table's definition or left
\* NULL.
InitSub ==
    /\ subStatus = "active"
    /\ subEnd \in {NoEndDate} \cup 1..(MaxNow - 1)
    /\ subUpdatedAt = 0
    /\ subHistory = <<>>
    /\ subNow = 0
    /\ checkPc = "idle"
    /\ expPc = "idle"
    /\ cmdPc = "idle"

\* Time passes.
SubTick ==
    /\ subNow < MaxNow
    /\ subNow' = subNow + 1
    /\ UNCHANGED <<subStatus, subEnd, subUpdatedAt, subHistory, checkPc, expPc, cmdPc>>
    /\ UNCHANGED <<taskVars, bundVars, wxVars, apiVars, extVars>>

\* A status sweep that selects the rows whatever their status.
SelectedByCheckAnyStatus(status) == TRUE

\* Status sweep, the WHERE clause of its SELECT: status = 'active'.
SelectedByCheck(status) == status = "active"

\* Status sweep, SELECT ... WHERE status = 'active': the row is in the result
\* or the loop passes it by.
CheckFetch ==
    /\ checkPc = "idle"
    /\ checkPc' = IF SelectedByCheck(subStatus) THEN "fetched" ELSE "skipped"
    /\ UNCHANGED <<subStatus, subEnd, subUpdatedAt, subHistory, subNow, expPc, cmdPc>>
    /\ UNCHANGED <<taskVars, bundVars, wxVars, apiVars, extVars>>

\* Status sweep, the loop ends without an iteration for the row.
CheckSkip ==
    /\ checkPc = "skipped"
    /\ checkPc' = "idle"
    /\ UNCHANGED <<subStatus, subEnd, subUpdatedAt, subHistory, subNow, expPc, cmdPc>>
    /\ UNCHANGED <<taskVars, bundVars, wxVars, apiVars, extVars>>

\* Status sweep, await planet_client.get_subscription_status: it returns, or it
\* raises and the except clause logs and moves on to the next subscription.
CheckPoll ==
    /\ checkPc = "fetched"
    /\ \E raised \in BOOLEAN : checkPc' = IF raised THEN "idle" ELSE "polled"
    /\ UNCHANGED <<subStatus, subEnd, subUpdatedAt, subHistory, subNow, expPc, cmdPc>>
    /\ UNCHANGED <<taskVars, bundVars, wxVars, apiVars, extVars>>

\* Status sweep, if utcnow() > end_date: UPDATE ... SET status = 'expired'
\* WHERE subscription_id = $2 (no condition on the stored status).  With a
\* NULL end_date the comparison raises and the except clause logs.
CheckUpdate ==
    /\ checkPc = "polled"
    /\ checkPc' = "idle"
    /\ IF subEnd # NoEndDate /\ subNow > subEnd
         THEN /\ subStatus' = "expired"
              /\ subUpdatedAt' = subNow
         ELSE UNCHANGED <<subStatus, subUpdatedAt>>
    /\ UNCHANGED <<subEnd, subHistory, subNow, expPc, cmdPc>>
    /\ UNCHANGED <<taskVars, bundVars, wxVars, apiVars, extVars>>

\* End-date sweep, the WHERE clause of its SELECT:
\* status = 'active' AND end_date < utcnow().
SelectedByExp(status, end, now) == status = "active" /\ end # NoEndDate /\ end < now

\* End-date sweep, SELECT ... WHERE status = 'active' AND end_date < utcnow().
ExpFetch ==
    /\ expPc = "idle"
    /\ expPc' = IF SelectedByExp(subStatus, subEnd, subNow) THEN "fetched" ELSE "skipped"
    /\ UNCHANGED <<subStatus, subEnd, subUpdatedAt, subHistory, subNow, checkPc, cmdPc>>
    /\ UNCHANGED <<taskVars, bundVars, wxVars, apiVars, extVars>>

\* End-date sweep, the loop ends without an iteration for the row.
ExpSkip ==
    /\ expPc = "skipped"
    /\ expPc' = "idle"
    /\ UNCHANGED <<subStatus, subEnd, subUpdatedAt, subHistory, subNow, checkPc, cmdPc>>
    /\ UNCHANGED <<taskVars, bundVars, wxVars, apiVars, extVars>>

\* End-date sweep, success = await planet_client.cancel_subscription(...);
\* the client returns False on any upstream error.
ExpCancel ==
    /\ expPc = "fetched"
    /\ \E success \in BOOLEAN : expPc' = IF success THEN "cancelled_upstream" ELSE "failed"
    /\ UNCHANGED <<subStatus, subEnd, subUpdatedAt, subHistory, subNow, checkPc, cmdPc>>
    /\ UNCHANGED <<taskVars, bundVars, wxVars, apiVars, extVars>>

\* End-date sweep, UPDATE ... SET status = 'cancelled' WHERE subscription_id = $2
\* and the audit-trail INSERT with old_status 'active', new_status 'cancelled'.
ExpUpdate ==
    /\ expPc = "cancelled_upstream"
    /\ expPc' = "idle"
    /\ subStatus' = "cancelled"
    /\ subUpdatedAt' = subNow
    /\ subHistory' = Append(subHistory, <<"active", "cancelled">>)
    /\ UNCHANGED <<subEnd, subNow, checkPc, cmdPc>>
    /\ UNCHANGED <<taskVars, bundVars, wxVars, apiVars, extVars>>

\* An end-date sweep that marks the row cancelled although the upstream
\* cancel failed.
ExpFailMarksCancelled ==
    /\ expPc = "failed"
    /\ expPc' = "idle"
    /\ subStatus' = "cancelled"
    /\ subUpdatedAt' = subNow
    /\ subHistory' = Append(subHistory, <<"active", "cancelled">>)
    /\ UNCHANGED <<subEnd, subNow, checkPc, cmdPc>>
    /\ UNCHANGED <<taskVars, bundVars, wxVars, apiVars, extVars>>

\* End-date sweep, success is False: the if body is skipped and the loop
\* moves on to the next subscription.
ExpFail ==
    /\ expPc = "failed"
    /\ expPc' = "idle"
    /\ UNCHANGED <<subStatus, subEnd, subUpdatedAt, subHistory, subNow, checkPc, cmdPc>>
    /\ UNCHANGED <<taskVars, bundVars, wxVars, apiVars, extVars>>

\* Cancel command, success = await planet_client.cancel_subscription(id).
CmdCancel ==
    /\ cmdPc = "idle"
    /\ \E success \in BOOLEAN : cmdPc' = IF success THEN "cancelled_upstream" ELSE "failed"
    /\ UNCHANGED <<subStatus, subEnd, subUpdatedAt, subHistory, subNow, checkPc, expPc>>
    /\ UNCHANGED <<taskVars, bundVars, wxVars, apiVars, extVars>>

\* Cancel command, if not success: raise HTTPException(500), before the
\* UPDATE.
CmdFail ==
    /\ cmdPc = "failed"
    /\ cmdPc' = "idle"
    /\ UNCHANGED <<subStatus, subEnd, subUpdatedAt, subHistory, subNow, checkPc, expPc>>
    /\ UNCHANGED <<taskVars, bundVars, wxVars, apiVars, extVars>>

\* Cancel command, UPDATE ... SET status = 'cancelled' WHERE subscription_id = $2.
CmdUpdate ==
    /\ cmdPc = "cancelled_upstream"
    /\ cmdPc' = "idle"
    /\ subStatus' = "cancelled"
    /\ subUpdatedAt' = subNow
    /\ UNCHANGED <<subEnd, subHistory, subNow, checkPc, expPc>>
    /\ UNCHANGED <<taskVars, bundVars, wxVars, apiVars, extVars>>

NextSub ==
    \/ SubTick
    \/ CheckFetch
    \/ CheckSkip
    \/ CheckPoll
    \/ CheckUpdate
    \/ ExpFetch
    \/ ExpSkip
    \/ ExpCancel
    \/ ExpFail
    \/ ExpUpdate
    \/ CmdCancel
    \/ CmdFail
    \/ CmdUpdate

(***************************************************************************)
(* Celery task execution: publication, execution, self.retry, worker loss  *)
(***************************************************************************)
\* fetch_all_weather_updates, calculate_damage_assessment, process_satellite_image
Kinds == {"weather", "damage", "satellite"}

\* The arguments a task is published with: the command handler names a plot,
\* the model takes one argument list for each of the other two kinds.
Payloads(kind) == IF kind = "damage" THEN {"p1", "p2"} ELSE {"none"}

\* max_retries of the task decorators.
MaxRetries(kind) == IF kind = "satellite" THEN 5 ELSE 3

\* Bound of the model on the executions of one task instance.
MaxRuns == 7

InitTask ==
    /\ tasks = <<>>
    /\ lostCount = 0
    /\ quarantine = {}

TaskIds == 1..Len(tasks)

\* What a publication consults before it sends the message: .delay() and the
\* beat schedule publish unconditionally, no idempotency key is looked up.
Absorbed(kind, payload) == FALSE

\* calculate_damage_assessment.delay(...) in the command handler, or a firing of
\* the beat schedule: a new message with a fresh task id and retries = 0.
Enqueue(kind, payload) ==
    /\ Len(tasks) < MaxTasks
    /\ IF Absorbed(kind, payload)
         THEN UNCHANGED tasks
         ELSE tasks' = Append(tasks, [kind |-> kind, payload |-> payload,
                                      state |-> "queued", retries |-> 0,
                                      runs |-> 0, raised |-> 0])
    /\ UNCHANGED <<lostCount, quarantine>>
    /\ UNCHANGED <<subVars, bundVars, wxVars, apiVars, extVars>>

\* A worker takes the message and runs the task body (acks_late: the message
\* stays unacknowledged while the body runs).
Start(i) ==
    /\ tasks[i].state = "queued"
    /\ tasks[i].runs < MaxRuns
    /\ tasks' = [tasks EXCEPT ![i].state = "running", ![i].runs = @ + 1]
    /\ UNCHANGED <<lostCount, quarantine>>
    /\ UNCHANGED <<subVars, bundVars, wxVars, apiVars, extVars>>

\* The body returns its result.
BodyReturns(i) ==
    /\ tasks[i].state = "running"
    /\ tasks' = [tasks EXCEPT ![i].state = "success"]
    /\ UNCHANGED <<lostCount, quarantine>>
    /\ UNCHANGED <<subVars, bundVars, wxVars, apiVars, extVars>>

\* A retry budget that is one too large.
RetryAllowedOffByOne(t) == t.retries <= MaxRetries(t.kind)

\* self.retry(exc=exc) publishes the task again with retries + 1 while the
\* retries used so far are below max_retries, and re-raises exc otherwise.
RetryAllowed(t) == t.retries < MaxRetries(t.kind)

\* on_failure of WeatherTask / DamageTask / SatelliteTask: logger.error only.
OnFailure(rows, i, t) == rows

\* except Exception as exc: raise self.retry(exc=exc)
BodyRaises(i) ==
    /\ tasks[i].state = "running"
    /\ IF RetryAllowed(tasks[i])
         THEN /\ tasks' = [tasks EXCEPT ![i].state = "queued",
                                        ![i].retries = @ + 1,
                                        ![i].raised = @ + 1]
              /\ UNCHANGED quarantine
         ELSE /\ tasks' = [tasks EXCEPT ![i].state = "failure",
                                        ![i].raised = @ + 1]
              /\ quarantine' = OnFailure(quarantine, i, tasks[i])
    /\ UNCHANGED lostCount
    /\ UNCHANGED <<subVars, bundVars, wxVars, apiVars, extVars>>

\* task_acks_late with task_reject_on_worker_lost: when the worker process
\* running the body is lost, the message is requeued as it was published,
\* its retries header unchanged.
WorkerLost(i) ==
    /\ tasks[i].state = "running"
    /\ lostCount < MaxLost
    /\ lostCount' = lostCount + 1
    /\ tasks' = [tasks EXCEPT ![i].state = "queued"]
    /\ UNCHANGED quarantine
    /\ UNCHANGED <<subVars, bundVars, wxVars, apiVars, extVars>>

NextTask ==
    \/ \E kind \in Kinds : \E payload \in Payloads(kind) : Enqueue(kind, payload)
    \/ \E i \in TaskIds : Start(i)
    \/ \E i \in TaskIds : BodyReturns(i)
    \/ \E i \in TaskIds : BodyRaises(i)
    \/ \E i \in TaskIds : WorkerLost(i)

(***************************************************************************)
(* Evidence preparation: _calculate_damage_assessment                      *)
(***************************************************************************)
Plots == {"P1", "P2"}
Policies == {"Q1", "Q2"}
PeriodDays == {1, 2}
Slots == {1, 2}

\* Clock granularity of the model: ticks in one second and in one day.
TicksPerSecond == 2
TicksPerDay == 4

\* Timestamps the weather_indices rows of the store may carry.
RowTimes == {0 - 6, 0}

\* The assessment_start and assessment_end of the row written at time r
\* (time = created_at): _calculate_daily_indices assesses the calendar day
\* before the day it runs on, from 00:00:00 to 23:59:59.999999.
AssessmentPeriod(r) ==
    LET yesterday == (r \div TicksPerDay) - 1
    IN [assessment_start |-> yesterday * TicksPerDay,
        assessment_end |-> yesterday * TicksPerDay + (TicksPerDay - 1)]

NoInvocation == [pc |-> "idle"]

InitBundle ==
    /\ bundNow = 0
    /\ weatherRows \in SUBSET RowTimes
    /\ satCount \in 0..1
    /\ assessments = {}
    /\ published = {}
    /\ invocations = [s \in Slots |-> NoInvocation]

BundleTick ==
    /\ bundNow < MaxBundNow
    /\ bundNow' = bundNow + 1
    /\ UNCHANGED <<weatherRows, satCount, assessments, published, invocations>>
    /\ UNCHANGED <<subVars, taskVars, wxVars, apiVars, extVars>>

\* datetime.now().strftime('%Y%m%d_%H%M%S'): the clock truncated to the second.
StrfSeconds(t) == t \div TicksPerSecond

\* assessment_id = f"DA_{plot_id}_{datetime.now().strftime(...)}"
AssessmentId(plot, policy, t) == <<"DA", plot, StrfSeconds(t)>>

\* The first statement of the function: the assessment id is minted from the
\* plot and a reading of the clock.
BundleBegin(s, plot, policy, days) ==
    /\ invocations[s].pc = "idle"
    /\ invocations' = [invocations EXCEPT ![s] =
           [pc |-> "minted", plot |-> plot, policy |-> policy, days |-> days,
            assessment_id |-> AssessmentId(plot, policy, bundNow)]]
    /\ UNCHANGED <<bundNow, weatherRows, satCount, assessments, published>>
    /\ UNCHANGED <<subVars, taskVars, wxVars, apiVars, extVars>>

\* SELECT data FROM weather_indices WHERE plot_id = $1 AND timestamp BETWEEN
\* start AND end ORDER BY timestamp DESC LIMIT 1
RowsInWindow(start, end) == {r \in weatherRows : start <= r /\ r <= end}

\* weather_results[0]["data"]: the latest row of the window.
LatestRow(start, end) ==
    CHOOSE r \in RowsInWindow(start, end) : \A q \in RowsInWindow(start, end) : q <= r

\* The dictionary the function returns.
Document(inv, start, end) ==
    [status |-> "data_prepared",
     assessment_id |-> inv.assessment_id,
     plot_id |-> inv.plot,
     policy_id |-> inv.policy,
     start |-> start,
     end |-> end,
     days |-> inv.days,
     weather_indices |-> LatestRow(start, end),
     satellite_image_count |-> satCount]

\* What the function writes to damage_assessments before it returns: the call
\* of store_damage_assessment is commented out, nothing is written.
StoreAssessment(rows, doc) == rows

\* What the function publishes to the content-addressed store before it
\* returns: the call of upload_damage_proof is commented out.
PublishEvidence(cids, doc) == cids

\* The rest of the function: end_date is a second reading of the clock, the
\* window is [end - days, end]; without a weather row in the window it raises
\* ValueError, otherwise it returns the prepared document.
BundleFinish(s) ==
    LET inv == invocations[s]
        end == bundNow
        start == bundNow - inv.days * TicksPerDay
    IN  /\ inv.pc = "minted"
        /\ IF RowsInWindow(start, end) = {}
             THEN /\ invocations' = [invocations EXCEPT ![s] =
                        [pc |-> "raised", plot |-> inv.plot, policy |-> inv.policy,
                         start |-> start, end |-> end]]
                  /\ UNCHANGED <<assessments, published>>
             ELSE /\ invocations' = [invocations EXCEPT ![s] =
                        [pc |-> "returned", plot |-> inv.plot, policy |-> inv.policy,
                         start |-> start, end |-> end,
                         doc |-> Document(inv, start, end)]]
                  /\ assessments' = StoreAssessment(assessments, Document(inv, start, end))
                  /\ published' = PublishEvidence(published, Document(inv, start, end))
        /\ UNCHANGED <<bundNow, weatherRows, satCount>>
        /\ UNCHANGED <<subVars, taskVars, wxVars, apiVars, extVars>>

\* The worker slot takes the next task.
BundleNext(s) ==
    /\ invocations[s].pc \in {"raised"}
    /\ invocations' = [invocations EXCEPT ![s] = NoInvocation]
    /\ UNCHANGED <<bundNow, weatherRows, satCount, assessments, published>>
    /\ UNCHANGED <<subVars, taskVars, wxVars, apiVars, extVars>>

NextBundle ==
    \/ BundleTick
    \/ \E s \in Slots, plot \in Plots, policy \in Policies, days \in PeriodDays :
           BundleBegin(s, plot, policy, days)
    \/ \E s \in Slots : BundleFinish(s)
    \/ \E s \in Slots : BundleNext(s)

(***************************************************************************)
(* WeatherXMClient: _check_rate_limit and the retry decorator of           *)
(* get_station_data / get_nearby_stations                                  *)
(***************************************************************************)
\* settings.WEATHERXM_RATE_LIMIT_PER_MINUTE as configured for the model.
RateLimit == 2
\* The limiter's window, in seconds.
WindowSeconds == 60
\* stop_after_attempt(3)
MaxAttempts == 3
\* Clock granularity of the model, in seconds.
TickSeconds == 20

Coros == 1..NumCoros

\* What one upstream request can end in: a parsed response, a connection
\* error, the httpx timeout, a 5xx / 429 / other 4xx status (raise_for_status),
\* or a body that response.json() cannot decode.
Outcomes == {"ok", "network", "timeout", "http5xx", "http429", "http4xx", "decode"}

\* httpx.HTTPError is the base of httpx.RequestError (NetworkError,
\* TimeoutException) and of httpx.HTTPStatusError; json's decode error is a
\* ValueError.
IsHTTPError(outcome) == outcome \in {"network", "timeout", "http5xx", "http429", "http4xx"}

\* retry=retry_if_exception_type(httpx.HTTPError), stop=stop_after_attempt(3)
TenacityRetries(outcome, attempt) == IsHTTPError(outcome) /\ attempt < MaxAttempts

CoroIdle == [pc |-> "idle", attempt |-> 0, prev |-> "none", wakeAt |-> 0]

InitWx ==
    /\ wxNow = 0
    /\ request_count = 0
    /\ request_window_start = 0
    /\ coros = [c \in Coros |-> CoroIdle]
    /\ wxIssued = <<>>

\* The requests of the last minute: those less than WindowSeconds old.
Recent(issued, now) == SelectSeq(issued, LAMBDA t : now - t < WindowSeconds)

WxTick ==
    /\ wxNow + TickSeconds <= MaxWxNow
    /\ wxNow' = wxNow + TickSeconds
    /\ wxIssued' = Recent(wxIssued, wxNow + TickSeconds)
    /\ UNCHANGED <<request_count, request_window_start, coros>>
    /\ UNCHANGED <<subVars, taskVars, bundVars, apiVars, extVars>>

\* One attempt of get_station_data, from await self._check_rate_limit() to
\* the first suspension: either the counter admits the request and
\* self.client.get sends it, or the coroutine goes to sleep until the window
\* is over.
AttemptBegin(c) ==
    LET co == coros[c]
        window_elapsed == wxNow - request_window_start
        first == co.pc = "idle"
    IN  /\ co.pc \in {"idle", "retry"}
        /\ IF window_elapsed >= WindowSeconds
             THEN /\ request_count' = 1
                  /\ request_window_start' = wxNow
                  /\ wxIssued' = Append(wxIssued, wxNow)
                  /\ coros' = [coros EXCEPT ![c].pc = "sent",
                                            ![c].attempt = IF first THEN 1 ELSE @,
                                            ![c].prev = IF first THEN "none" ELSE @]
             ELSE IF request_count >= RateLimit
             THEN /\ coros' = [coros EXCEPT ![c].pc = "sleeping",
                                            ![c].attempt = IF first THEN 1 ELSE @,
                                            ![c].prev = IF first THEN "none" ELSE @,
                                            ![c].wakeAt = wxNow + (WindowSeconds - window_elapsed)]
                  /\ UNCHANGED <<request_count, request_window_start, wxIssued>>
             ELSE /\ request_count' = request_count + 1
                  /\ wxIssued' = Append(wxIssued, wxNow)
                  /\ coros' = [coros EXCEPT ![c].pc = "sent",
                                            ![c].attempt = IF first THEN 1 ELSE @,
                                            ![c].prev = IF first THEN "none" ELSE @]
                  /\ UNCHANGED request_window_start
        /\ UNCHANGED wxNow
        /\ UNCHANGED <<subVars, taskVars, bundVars, apiVars, extVars>>

\* asyncio.sleep(wait_time) returns: request_count = 0, request_window_start =
\* utcnow(), request_count += 1, and self.client.get sends the request.
Wake(c) ==
    /\ coros[c].pc = "sleeping"
    /\ wxNow >= coros[c].wakeAt
    /\ request_count' = 1
    /\ request_window_start' = wxNow
    /\ wxIssued' = Append(wxIssued, wxNow)
    /\ coros' = [coros EXCEPT ![c].pc = "sent", ![c].wakeAt = 0]
    /\ UNCHANGED wxNow
    /\ UNCHANGED <<subVars, taskVars, bundVars, apiVars, extVars>>

\* The request ends; the except clauses log and re-raise, and the retry
\* decorator either starts another attempt or lets the call end.
Respond(c, outcome) ==
    /\ coros[c].pc = "sent"
    /\ IF outcome # "ok" /\ TenacityRetries(outcome, coros[c].attempt)
         THEN coros' = [coros EXCEPT ![c].pc = "retry",
                                     ![c].attempt = @ + 1,
                                     ![c].prev = outcome]
         ELSE coros' = [coros EXCEPT ![c] = CoroIdle]
    /\ UNCHANGED <<wxNow, request_count, request_window_start, wxIssued>>
    /\ UNCHANGED <<subVars, taskVars, bundVars, apiVars, extVars>>

NextWx ==
    \/ WxTick
    \/ \E c \in Coros : AttemptBegin(c)
    \/ \E c \in Coros : Wake(c)
    \/ \E c \in Coros, outcome \in Outcomes : Respond(c, outcome)

(***************************************************************************)
(* POST /damage/assess: RedisCache.check_rate_limit and the enqueue        *)
(***************************************************************************)
\* check_rate_limit(rate_limit_key, limit=5, window=3600)
AssessLimit == 5
AssessWindow == 3600
\* Clock granularity of the model, in seconds.
ApiTickSeconds == 1800

Handlers == 1..NumHandlers

\* The value RedisCache.increment returns when the command raised.
None == 0 - 1
Gens == 0..(MaxApiNow \div ApiTickSeconds + 1)

HandlerIdle == [pc |-> "idle", current |-> 0, gen |-> 0]
NoAnswer == [answer |-> "none", current |-> 0, gen |-> 0]

InitApi ==
    /\ apiNow = 0
    /\ rlCount = 0
    /\ rlExpireAt = 0 - 1
    /\ rlGen = 0
    /\ redisFailures = 0
    /\ handlers = [h \in Handlers |-> HandlerIdle]
    /\ apiAccepted = <<>>
    /\ acceptedByGen = [g \in Gens |-> 0]
    /\ lastAnswer = NoAnswer

\* The accepted requests of the last hour: those less than AssessWindow old.
RecentAccepted(accepted, now) == SelectSeq(accepted, LAMBDA t : now - t < AssessWindow)

\* Time passes; Redis drops a key whose expiry is reached.
ApiTick ==
    LET now == apiNow + ApiTickSeconds
        expired == rlExpireAt # 0 - 1 /\ now >= rlExpireAt
    IN  /\ now <= MaxApiNow
        /\ apiNow' = now
        /\ rlCount' = IF expired THEN 0 ELSE rlCount
        /\ rlExpireAt' = IF expired THEN 0 - 1 ELSE rlExpireAt
        /\ apiAccepted' = RecentAccepted(apiAccepted, now)
        /\ UNCHANGED <<rlGen, redisFailures, handlers, acceptedByGen, lastAnswer>>
        /\ UNCHANGED <<subVars, taskVars, bundVars, wxVars, extVars>>

\* current = await self.increment(rate_key): INCRBY is atomic in Redis and
\* creates the key at 1; RedisCache.increment returns None when the command
\* raises.
Increment(h, fails) ==
    /\ handlers[h].pc = "idle"
    /\ IF fails
         THEN /\ redisFailures < MaxRedisFailures
              /\ redisFailures' = redisFailures + 1
              /\ handlers' = [handlers EXCEPT ![h] =
                     [pc |-> "incremented", current |-> None, gen |-> rlGen]]
              /\ UNCHANGED <<rlCount, rlGen>>
         ELSE /\ rlCount < MaxCount
              /\ rlCount' = rlCount + 1
              /\ rlGen' = IF rlCount = 0 THEN rlGen + 1 ELSE rlGen
              /\ handlers' = [handlers EXCEPT ![h] =
                     [pc |-> "incremented", current |-> rlCount + 1,
                      gen |-> IF rlCount = 0 THEN rlGen + 1 ELSE rlGen]]
              /\ UNCHANGED redisFailures
    /\ UNCHANGED <<apiNow, rlExpireAt, apiAccepted, acceptedByGen, lastAnswer>>
    /\ UNCHANGED <<subVars, taskVars, bundVars, wxVars, extVars>>

\* A limit check that lets one request too many through.
WithinLimitOffByOne(current, limit) == current <= limit + 1

\* is_within_limit = current <= limit
WithinLimit(current, limit) == current <= limit

\* A check_rate_limit whose except clause refuses the request.
CheckRateLimitDeniesOnError(current, limit) ==
    IF current = None THEN FALSE ELSE WithinLimit(current, limit)

\* What check_rate_limit returns: with current = None the comparison
\* current <= limit raises TypeError and the except clause returns True.
CheckRateLimit(current, limit) ==
    IF current = None THEN TRUE ELSE WithinLimit(current, limit)

\* The rest of check_rate_limit and of the handler.  With current = None the
\* comparison raises TypeError and the except clause returns True.  With
\* current = 1 the expiry is set first (RedisCache.expire returns False when
\* the command raises).  Within the limit the handler calls
\* calculate_damage_assessment.delay(...), otherwise it answers 429.
Decide(h, expireFails) ==
    LET ha == handlers[h]
        counted == ha.current # None
        allowed == CheckRateLimit(ha.current, AssessLimit)
        setsExpiry == counted /\ ha.current = 1 /\ ~expireFails /\ rlCount > 0
    IN  /\ ha.pc = "incremented"
        /\ expireFails => (counted /\ ha.current = 1)
        /\ rlExpireAt' = IF setsExpiry THEN apiNow + AssessWindow ELSE rlExpireAt
        /\ handlers' = [handlers EXCEPT ![h] = HandlerIdle]
        /\ lastAnswer' = [answer |-> IF allowed THEN "accepted" ELSE "429",
                          current |-> ha.current, gen |-> ha.gen]
        /\ apiAccepted' = IF allowed THEN Append(apiAccepted, apiNow) ELSE apiAccepted
        /\ acceptedByGen' = IF allowed /\ counted
                              THEN [acceptedByGen EXCEPT ![ha.gen] = @ + 1]
                              ELSE acceptedByGen
        /\ UNCHANGED <<apiNow, rlCount, rlGen, redisFailures>>
        /\ UNCHANGED <<subVars, taskVars, bundVars, wxVars, extVars>>

NextApi ==
    \/ ApiTick
    \/ \E h \in Handlers, fails \in BOOLEAN : Increment(h, fails)
    \/ \E h \in Handlers, expireFails \in BOOLEAN : Decide(h, expireFails)

(***************************************************************************)
(* The try / except wrapper of the task functions:                         *)
(*     try: result = asyncio.run(_body(...)); return result                *)
(*     except Exception as exc: raise self.retry(exc=exc)                  *)
(***************************************************************************)
\* fetch_all_weather_updates, process_weather_indices, calculate_damage_assessment
JobKinds == {"weather", "indices", "damage"}

\* What ends an execution of the body by an exception: any other error, the
\* ValueError the body raises when its window holds no data, or the
\* SoftTimeLimitExceeded the worker raises in the body after
\* task_soft_time_limit seconds.  All three are subclasses of Exception.
Exceptions == {"Exception", "ValueError_no_data", "SoftTimeLimitExceeded"}

\* The bodies that can raise "No weather data / No weather indices available".
RaisesNoData(kind) == kind \in {"indices", "damage"}

\* The bodies with a try / except Exception of their own around each plot:
\* an exception raised inside it is logged there and the loop goes on.
HasInnerExcept(kind) == kind = "weather"

JobQueued == [state |-> "queued", retries |-> 0, ended |-> "none", swallowed |-> FALSE]

InitRetry ==
    jobs = [k \in JobKinds |-> JobQueued]

\* A worker takes the message and runs the wrapper.
JobStart(k) ==
    /\ jobs[k].state = "queued"
    /\ jobs' = [jobs EXCEPT ![k].state = "running", ![k].swallowed = FALSE]
    /\ UNCHANGED <<coreVars, tableVars, beatVars, sweepVars, storeVars, indexVars, biomassVars, cacheVars, historyVars, wsVars, loopVars, trigVars, payoutVars>>

\* return result
JobReturns(k) ==
    /\ jobs[k].state = "running"
    /\ jobs' = [jobs EXCEPT ![k].state = "success", ![k].ended = "return"]
    /\ UNCHANGED <<coreVars, tableVars, beatVars, sweepVars, storeVars, indexVars, biomassVars, cacheVars, historyVars, wsVars, loopVars, trigVars, payoutVars>>

\* The exception classes the wrapper hands to self.retry: except Exception.
Retried(exc) == exc \in Exceptions

\* An exception leaves asyncio.run: the except clause calls self.retry, which
\* publishes the task again with retries + 1 or, the budget used up, re-raises.
JobRaises(k, exc) ==
    /\ jobs[k].state = "running"
    /\ exc = "ValueError_no_data" => RaisesNoData(k)
    /\ IF Retried(exc) /\ RetryAllowed([kind |-> k, retries |-> jobs[k].retries])
         THEN jobs' = [jobs EXCEPT ![k].state = "queued",
                                   ![k].retries = @ + 1,
                                   ![k].ended = exc]
         ELSE jobs' = [jobs EXCEPT ![k].state = "failure", ![k].ended = exc]
    /\ UNCHANGED <<coreVars, tableVars, beatVars, sweepVars, storeVars, indexVars, biomassVars, cacheVars, historyVars, wsVars, loopVars, trigVars, payoutVars>>

\* SoftTimeLimitExceeded is raised while the body is inside its own
\* try / except Exception: it is logged as a failed plot and the body goes on.
JobSwallows(k) ==
    /\ jobs[k].state = "running"
    /\ HasInnerExcept(k)
    /\ ~jobs[k].swallowed
    /\ jobs' = [jobs EXCEPT ![k].swallowed = TRUE]
    /\ UNCHANGED <<coreVars, tableVars, beatVars, sweepVars, storeVars, indexVars, biomassVars, cacheVars, historyVars, wsVars, loopVars, trigVars, payoutVars>>

\* A new publication of the task after the instance is over.
JobEnqueue(k) ==
    /\ jobs[k].state \in {"success", "failure"}
    /\ jobs' = [jobs EXCEPT ![k] = JobQueued]
    /\ UNCHANGED <<coreVars, tableVars, beatVars, sweepVars, storeVars, indexVars, biomassVars, cacheVars, historyVars, wsVars, loopVars, trigVars, payoutVars>>

NextRetry ==
    \/ \E k \in JobKinds : JobStart(k)
    \/ \E k \in JobKinds : JobReturns(k)
    \/ \E k \in JobKinds, exc \in Exceptions : JobRaises(k, exc)
    \/ \E k \in JobKinds : JobSwallows(k)
    \/ \E k \in JobKinds : JobEnqueue(k)


(***************************************************************************)
(* planet_subscriptions as a table: create and cancel commands and the     *)
(* two sweeps over the subscriptions of several plots.  Each handler or    *)
(* sweep iteration is one step here; their interleavings on one row are    *)
(* the subject of SpecSub.                                                 *)
(***************************************************************************)
MaxSubs == 3
MaxTableNow == 2

SubPlots == {"P1", "P2"}

\* end_date of a new row: the INSERT names no end_date, the column is filled
\* by the table's definition or left NULL.
NewEndDates == {NoEndDate, 1}

InitTable ==
    /\ subsTable = <<>>
    /\ planetSubs = {}
    /\ planetCreated = 0
    /\ tableNow = 0

TableIds == 1..Len(subsTable)

TableTick ==
    /\ tableNow < MaxTableNow
    /\ tableNow' = tableNow + 1
    /\ UNCHANGED <<subsTable, planetSubs, planetCreated>>
    /\ UNCHANGED <<coreVars, retryVars, beatVars, sweepVars, storeVars, indexVars, biomassVars, cacheVars, historyVars, wsVars, loopVars, trigVars, payoutVars>>

\* What create_subscription looks up before it creates: nothing, neither the
\* plot's rows nor their status.
CreateRefused(plot) == FALSE

\* POST /subscription: planet_client.create_biomass_subscription returns a new
\* subscription id or raises; then the row is inserted with status 'active',
\* or the INSERT raises.  Any exception is answered 500.
CreateSubscription(plot, end, upstreamOk, insertOk) ==
    /\ planetCreated < MaxSubs
    /\ ~CreateRefused(plot)
    /\ IF ~upstreamOk
         THEN UNCHANGED <<subsTable, planetSubs, planetCreated>>
         ELSE /\ planetCreated' = planetCreated + 1
              /\ planetSubs' = planetSubs \cup {planetCreated + 1}
              /\ IF insertOk
                   THEN subsTable' = Append(subsTable,
                            [subscription_id |-> planetCreated + 1, plot_id |-> plot,
                             status |-> "active", end_date |-> end,
                             updated_at |-> NoEndDate])
                   ELSE UNCHANGED subsTable
    /\ UNCHANGED tableNow
    /\ UNCHANGED <<coreVars, retryVars, beatVars, sweepVars, storeVars, indexVars, biomassVars, cacheVars, historyVars, wsVars, loopVars, trigVars, payoutVars>>

\* DELETE /subscription/{id}: the upstream cancel, then the UPDATE to
\* 'cancelled'; an upstream failure answers 500 and leaves the row alone.
CancelSubscription(i, success) ==
    /\ IF success
         THEN /\ planetSubs' = planetSubs \ {subsTable[i].subscription_id}
              /\ subsTable' = [subsTable EXCEPT ![i].status = "cancelled",
                                                ![i].updated_at = tableNow]
         ELSE UNCHANGED <<subsTable, planetSubs>>
    /\ UNCHANGED <<planetCreated, tableNow>>
    /\ UNCHANGED <<coreVars, retryVars, beatVars, sweepVars, storeVars, indexVars, biomassVars, cacheVars, historyVars, wsVars, loopVars, trigVars, payoutVars>>

\* One iteration of the status sweep over an active row: the upstream poll,
\* then the UPDATE to 'expired' when the end date is passed; an exception
\* (from the poll, or from comparing with a NULL end_date) is logged.
SweepStatus(i, raised) ==
    /\ SelectedByCheck(subsTable[i].status)
    /\ IF ~raised /\ subsTable[i].end_date # NoEndDate /\ tableNow > subsTable[i].end_date
         THEN subsTable' = [subsTable EXCEPT ![i].status = "expired",
                                            ![i].updated_at = tableNow]
         ELSE UNCHANGED subsTable
    /\ UNCHANGED <<planetSubs, planetCreated, tableNow>>
    /\ UNCHANGED <<coreVars, retryVars, beatVars, sweepVars, storeVars, indexVars, biomassVars, cacheVars, historyVars, wsVars, loopVars, trigVars, payoutVars>>

\* One iteration of the end-date sweep over an active row past its end date.
SweepEndDate(i, success) ==
    /\ SelectedByExp(subsTable[i].status, subsTable[i].end_date, tableNow)
    /\ IF success
         THEN /\ planetSubs' = planetSubs \ {subsTable[i].subscription_id}
              /\ subsTable' = [subsTable EXCEPT ![i].status = "cancelled",
                                                ![i].updated_at = tableNow]
         ELSE UNCHANGED <<subsTable, planetSubs>>
    /\ UNCHANGED <<planetCreated, tableNow>>
    /\ UNCHANGED <<coreVars, retryVars, beatVars, sweepVars, storeVars, indexVars, biomassVars, cacheVars, historyVars, wsVars, loopVars, trigVars, payoutVars>>

NextTable ==
    \/ TableTick
    \/ \E plot \in SubPlots, end \in NewEndDates, upstreamOk, insertOk \in BOOLEAN :
           CreateSubscription(plot, end, upstreamOk, insertOk)
    \/ \E i \in TableIds, success \in BOOLEAN : CancelSubscription(i, success)
    \/ \E i \in TableIds, raised \in BOOLEAN : SweepStatus(i, raised)
    \/ \E i \in TableIds, success \in BOOLEAN : SweepEndDate(i, success)


(***************************************************************************)
(* Celery beat: the configured beat_schedule and the tasks it fires        *)
(***************************************************************************)
MaxBeatNow == 2

\* celery_app.conf beat_schedule: entry name -> task name.  The schedule that
\* names the planet tasks is a string literal at the end of planet_tasks.py
\* ("Add to celery_app.py") and is not part of the configuration.
BeatSchedule ==
    {<<"fetch-weather-updates", "src.workers.weather_tasks.fetch_all_weather_updates">>,
     <<"calculate-daily-weather-indices", "src.workers.weather_tasks.calculate_daily_indices">>,
     <<"check-weather-triggers", "src.workers.weather_tasks.check_weather_triggers">>,
     <<"process-pending-assessments", "src.workers.damage_tasks.process_pending_assessments">>,
     <<"process-pending-payouts", "src.workers.damage_tasks.process_pending_payouts">>,
     <<"archive-old-assessments", "src.workers.damage_tasks.archive_old_assessments">>,
     <<"health-check", "src.workers.health_tasks.health_check">>}

\* @shared_task(name=...) of the two lifecycle sweeps.
StatusSweepTask == "planet.check_active_subscriptions"
EndDateSweepTask == "planet.cancel_expired_subscriptions"

InitBeat ==
    /\ beatNow = 0
    /\ beatFired = {}
    /\ beatSubStatus = "active"
    /\ beatSubEnd = 1

BeatTick ==
    /\ beatNow < MaxBeatNow
    /\ beatNow' = beatNow + 1
    /\ UNCHANGED <<beatFired, beatSubStatus, beatSubEnd>>
    /\ UNCHANGED <<coreVars, retryVars, tableVars, sweepVars, storeVars, indexVars, biomassVars, cacheVars, historyVars, wsVars, loopVars, trigVars, payoutVars>>

\* The stored status after a worker has run the fired task to its end, the
\* upstream calls succeeding.
StatusAfterTask(task, status, end, now) ==
    IF task = StatusSweepTask /\ SelectedByCheck(status) /\ now > end
      THEN "expired"
    ELSE IF task = EndDateSweepTask /\ SelectedByExp(status, end, now)
      THEN "cancelled"
    ELSE status

\* An entry of the schedule is due: beat publishes its task and a worker runs it.
BeatFire(entry) ==
    /\ beatFired' = beatFired \cup {entry[2]}
    /\ beatSubStatus' = StatusAfterTask(entry[2], beatSubStatus, beatSubEnd, beatNow)
    /\ UNCHANGED <<beatNow, beatSubEnd>>
    /\ UNCHANGED <<coreVars, retryVars, tableVars, sweepVars, storeVars, indexVars, biomassVars, cacheVars, historyVars, wsVars, loopVars, trigVars, payoutVars>>

NextBeat ==
    \/ BeatTick
    \/ \E entry \in BeatSchedule : BeatFire(entry)


(***************************************************************************)
(* The weather sweep on one plot: _fetch_all_weather_updates under the     *)
(* five-minute schedule, and its weather_fetch:{plot_id} marker            *)
(***************************************************************************)
MaxFirings == 2
MaxSweepNow == 400
MaxCacheFailures == 1
\* Clock granularity of the model, in seconds.
SweepTickSeconds == 100

\* crontab(minute="*/5")
FirePeriod == 300
\* redis_cache.set(cache_key, "1", ttl=300)
MarkerTTL == 300

Firings == 1..MaxFirings
FiredAt(n) == (n - 1) * FirePeriod

ExecIdle == [pc |-> "unfired", result |-> "none"]

InitSweep ==
    /\ sweepNow = 0
    /\ markerExpireAt = NoEndDate
    /\ cacheFailures = 0
    /\ execs = [n \in Firings |-> ExecIdle]
    /\ samples = {}

\* Time passes; Redis drops the marker when its TTL is over.
SweepTick ==
    LET now == sweepNow + SweepTickSeconds
    IN  /\ now <= MaxSweepNow
        /\ sweepNow' = now
        /\ markerExpireAt' = IF markerExpireAt # NoEndDate /\ now >= markerExpireAt
                               THEN NoEndDate ELSE markerExpireAt
        /\ UNCHANGED <<cacheFailures, execs, samples>>
        /\ UNCHANGED <<coreVars, retryVars, tableVars, beatVars, storeVars, indexVars, biomassVars, cacheVars, historyVars, wsVars, loopVars, trigVars, payoutVars>>

\* Beat publishes the n-th firing of fetch-weather-updates at its minute.
SweepFire(n) ==
    /\ execs[n].pc = "unfired"
    /\ sweepNow = FiredAt(n)
    /\ execs' = [execs EXCEPT ![n].pc = "queued"]
    /\ UNCHANGED <<sweepNow, markerExpireAt, cacheFailures, samples>>
    /\ UNCHANGED <<coreVars, retryVars, tableVars, beatVars, storeVars, indexVars, biomassVars, cacheVars, historyVars, wsVars, loopVars, trigVars, payoutVars>>

\* The gate in front of the fetch: a read of the marker, nothing is written.
MarkerHeld(expireAt) == expireAt # NoEndDate

\* A worker runs the task; for the plot the loop first asks
\* redis_cache.exists(cache_key), which answers False when the command raises,
\* and passes the plot by when the marker is there.
SweepCheck(n, existsFails) ==
    /\ execs[n].pc = "queued"
    /\ IF existsFails
         THEN /\ cacheFailures < MaxCacheFailures
              /\ cacheFailures' = cacheFailures + 1
              /\ execs' = [execs EXCEPT ![n].pc = "checked"]
         ELSE /\ UNCHANGED cacheFailures
              /\ IF MarkerHeld(markerExpireAt)
                   THEN execs' = [execs EXCEPT ![n].pc = "done", ![n].result = "skipped"]
                   ELSE execs' = [execs EXCEPT ![n].pc = "checked"]
    /\ UNCHANGED <<sweepNow, markerExpireAt, samples>>
    /\ UNCHANGED <<coreVars, retryVars, tableVars, beatVars, storeVars, indexVars, biomassVars, cacheVars, historyVars, wsVars, loopVars, trigVars, payoutVars>>

\* get_current_weather returns data, returns None, or raises (the per-plot
\* except clause logs); with data, store_weather_data inserts the sample.
SweepFetchStore(n, outcome) ==
    /\ execs[n].pc = "checked"
    /\ IF outcome = "data"
         THEN /\ samples' = samples \cup {[at |-> sweepNow, by |-> n]}
              /\ execs' = [execs EXCEPT ![n].pc = "stored", ![n].result = "stored"]
         ELSE /\ UNCHANGED samples
              /\ execs' = [execs EXCEPT ![n].pc = "done", ![n].result = outcome]
    /\ UNCHANGED <<sweepNow, markerExpireAt, cacheFailures>>
    /\ UNCHANGED <<coreVars, retryVars, tableVars, beatVars, storeVars, indexVars, biomassVars, cacheVars, historyVars, wsVars, loopVars, trigVars, payoutVars>>

\* redis_cache.set(cache_key, "1", ttl=300) after the sample is stored and
\* cached: SETEX, or nothing when the command raises.
SweepMark(n, setFails) ==
    /\ execs[n].pc = "stored"
    /\ IF setFails
         THEN /\ cacheFailures < MaxCacheFailures
              /\ cacheFailures' = cacheFailures + 1
              /\ UNCHANGED markerExpireAt
         ELSE /\ markerExpireAt' = sweepNow + MarkerTTL
              /\ UNCHANGED cacheFailures
    /\ execs' = [execs EXCEPT ![n].pc = "done"]
    /\ UNCHANGED <<sweepNow, samples>>
    /\ UNCHANGED <<coreVars, retryVars, tableVars, beatVars, storeVars, indexVars, biomassVars, cacheVars, historyVars, wsVars, loopVars, trigVars, payoutVars>>

NextSweep ==
    \/ SweepTick
    \/ \E n \in Firings : SweepFire(n)
    \/ \E n \in Firings, existsFails \in BOOLEAN : SweepCheck(n, existsFails)
    \/ \E n \in Firings, outcome \in {"data", "no_data", "error"} : SweepFetchStore(n, outcome)
    \/ \E n \in Firings, setFails \in BOOLEAN : SweepMark(n, setFails)


(***************************************************************************)
(* The time-series store: TimescaleClient.connect / _create_tables, the    *)
(* INSERTs of the store_* methods, and the two periodic sweeps that run    *)
(* UPDATE damage_assessments                                               *)
(***************************************************************************)
MaxStoreRows == 2
NumProcs == 2

\* The holders of a connection flag: each task object of a worker process has
\* its own _connections_initialized, and the API process connects in its
\* lifespan.
Procs == 1..NumProcs

InitStore ==
    /\ storeConnected = [p \in Procs |-> FALSE]
    /\ rowsInserted = 0
    /\ weatherData = {}
    /\ satelliteImages = {}
    /\ damageAssessments = {}

\* What _create_tables leaves of a table that held rows: it runs
\* DROP TABLE IF EXISTS ... CASCADE and then CREATE TABLE IF NOT EXISTS.
AfterCreateTables(rows) == {}

\* A process opens its connection (before_start of the task base classes, the
\* API's lifespan, get_timescale_client): create_pool, then _create_tables.
Connect(p) ==
    /\ ~storeConnected[p]
    /\ storeConnected' = [storeConnected EXCEPT ![p] = TRUE]
    /\ weatherData' = AfterCreateTables(weatherData)
    /\ satelliteImages' = AfterCreateTables(satelliteImages)
    /\ damageAssessments' = AfterCreateTables(damageAssessments)
    /\ UNCHANGED rowsInserted
    /\ UNCHANGED <<coreVars, retryVars, tableVars, beatVars, sweepVars, indexVars, biomassVars, cacheVars, historyVars, wsVars, loopVars, trigVars, payoutVars>>

\* The process ends (worker_max_tasks_per_child, a restart of the API); its
\* successor connects anew.
Disconnect(p) ==
    /\ storeConnected[p]
    /\ storeConnected' = [storeConnected EXCEPT ![p] = FALSE]
    /\ UNCHANGED <<rowsInserted, weatherData, satelliteImages, damageAssessments>>
    /\ UNCHANGED <<coreVars, retryVars, tableVars, beatVars, sweepVars, indexVars, biomassVars, cacheVars, historyVars, wsVars, loopVars, trigVars, payoutVars>>

\* store_weather_data: INSERT INTO weather_data.
StoreWeatherData(p) ==
    /\ storeConnected[p]
    /\ rowsInserted < MaxStoreRows
    /\ rowsInserted' = rowsInserted + 1
    /\ weatherData' = weatherData \cup {rowsInserted + 1}
    /\ UNCHANGED <<storeConnected, satelliteImages, damageAssessments>>
    /\ UNCHANGED <<coreVars, retryVars, tableVars, beatVars, sweepVars, indexVars, biomassVars, cacheVars, historyVars, wsVars, loopVars, trigVars, payoutVars>>

\* store_satellite_image: INSERT INTO satellite_images.
StoreSatelliteImage(p) ==
    /\ storeConnected[p]
    /\ rowsInserted < MaxStoreRows
    /\ rowsInserted' = rowsInserted + 1
    /\ satelliteImages' = satelliteImages \cup {rowsInserted + 1}
    /\ UNCHANGED <<storeConnected, weatherData, damageAssessments>>
    /\ UNCHANGED <<coreVars, retryVars, tableVars, beatVars, sweepVars, indexVars, biomassVars, cacheVars, historyVars, wsVars, loopVars, trigVars, payoutVars>>

\* store_damage_assessment: INSERT INTO damage_assessments; the columns the
\* sweeps read and write are kept.
StoreDamageAssessment(p, is_triggered, ipfs_cid, payout_status) ==
    /\ storeConnected[p]
    /\ rowsInserted < MaxStoreRows
    /\ rowsInserted' = rowsInserted + 1
    /\ damageAssessments' = damageAssessments \cup
           {[assessment_id |-> rowsInserted + 1,
             is_triggered |-> is_triggered,
             ipfs_cid |-> ipfs_cid,
             payout_status |-> payout_status,
             blockchain_tx_hash |-> "null",
             archived |-> FALSE,
             updated_at |-> "null"]}
    /\ UNCHANGED <<storeConnected, weatherData, satelliteImages>>
    /\ UNCHANGED <<coreVars, retryVars, tableVars, beatVars, sweepVars, indexVars, biomassVars, cacheVars, historyVars, wsVars, loopVars, trigVars, payoutVars>>

\* The row as the pending-payout sweep's UPDATE leaves it:
\* SET payout_status = 'pending_blockchain', blockchain_tx_hash = 'celery_task_...',
\*     updated_at = now.
AfterPayoutUpdate(row) ==
    [row EXCEPT !.payout_status = "pending_blockchain",
                !.blockchain_tx_hash = "celery_task",
                !.updated_at = "set"]

\* A source tree in which workers/blockchain_tasks.py is present.
WorkersBlockchainTasksExistsAfterAll == TRUE

\* from workers.blockchain_tasks import assess_damage_on_chain: the workers
\* package holds no module blockchain_tasks, the import raises
\* ModuleNotFoundError.
WorkersBlockchainTasksExists == FALSE

\* _process_pending_payouts, one iteration: for a triggered row with payout
\* status pending and an ipfs_cid, the on-chain task is imported and queued
\* and the row updated; an exception on the way is logged by the
\* iteration's except clause.
ProcessPendingPayout(p, row) ==
    /\ storeConnected[p]
    /\ row \in damageAssessments
    /\ row.is_triggered
    /\ row.payout_status = "pending"
    /\ row.ipfs_cid # "null"
    /\ damageAssessments' =
           IF WorkersBlockchainTasksExists
           THEN (damageAssessments \ {row}) \cup {AfterPayoutUpdate(row)}
           ELSE damageAssessments
    /\ UNCHANGED <<storeConnected, rowsInserted, weatherData, satelliteImages>>
    /\ UNCHANGED <<coreVars, retryVars, tableVars, beatVars, sweepVars, indexVars, biomassVars, cacheVars, historyVars, wsVars, loopVars, trigVars, payoutVars>>

\* The row as the archive sweep's UPDATE leaves it:
\* SET archived = true, updated_at = now.
AfterArchiveUpdate(row) ==
    [row EXCEPT !.archived = TRUE, !.updated_at = "set"]

\* _archive_old_assessments, one iteration: for a row with payout status
\* completed, rejected or approved, older than 90 days and not archived.
ArchiveOldAssessment(p, row, olderThanCutoff) ==
    /\ storeConnected[p]
    /\ row \in damageAssessments
    /\ row.payout_status \in {"completed", "rejected", "approved"}
    /\ olderThanCutoff
    /\ ~row.archived
    /\ damageAssessments' = (damageAssessments \ {row}) \cup {AfterArchiveUpdate(row)}
    /\ UNCHANGED <<storeConnected, rowsInserted, weatherData, satelliteImages>>
    /\ UNCHANGED <<coreVars, retryVars, tableVars, beatVars, sweepVars, indexVars, biomassVars, cacheVars, historyVars, wsVars, loopVars, trigVars, payoutVars>>

NextStore ==
    \/ \E p \in Procs : Connect(p)
    \/ \E p \in Procs : Disconnect(p)
    \/ \E p \in Procs : StoreWeatherData(p)
    \/ \E p \in Procs : StoreSatelliteImage(p)
    \/ \E p \in Procs, is_triggered \in BOOLEAN, ipfs_cid \in {"null", "cid"},
          payout_status \in {"pending", "approved"} :
           StoreDamageAssessment(p, is_triggered, ipfs_cid, payout_status)
    \/ \E p \in Procs, row \in damageAssessments : ProcessPendingPayout(p, row)
    \/ \E p \in Procs, row \in damageAssessments, olderThanCutoff \in BOOLEAN :
           ArchiveOldAssessment(p, row, olderThanCutoff)


(***************************************************************************)
(* Weather indexing engine: WeatherProcessor.calculate_weather_indices and *)
(* the task _process_weather_indices that calls it.  Rainfall is in mm,    *)
(* temperature in degrees C, soil moisture in percent, data_quality in     *)
(* tenths; a score s of the code is kept as the integer s * ScoreOne.      *)
(***************************************************************************)
MaxIdxSamples == 3
MaxIdxDay == 4
MaxRunDays == 8

\* 1.0 of a score.  Every divisor of the score formulas (100, 20, 30, 200,
\* 15, 10, 5) divides it, so the quotients of whole-number inputs are exact.
ScoreOne == 600

\* settings.py defaults read in WeatherProcessor.__init__
drought_rainfall_threshold == 20
drought_days_threshold == 14
flood_daily_threshold == 150
flood_intensity_threshold == 200
heat_temp_threshold == 35
heat_days_threshold == 7

Min(a, b) == IF a <= b THEN a ELSE b
Max(a, b) == IF a >= b THEN a ELSE b
MaxOf(S) == CHOOSE x \in S : \A y \in S : y <= x

RECURSIVE Sum(_, _)
Sum(f, S) ==
    IF S = {} THEN 0
    ELSE LET x == CHOOSE y \in S : TRUE IN f[x] + Sum(f, S \ {x})

\* sorted(d.keys())
RECURSIVE SortedKeys(_)
SortedKeys(S) ==
    IF S = {} THEN <<>>
    ELSE LET m == CHOOSE x \in S : \A y \in S : x <= y
         IN <<m>> \o SortedKeys(S \ {m})

\* The measurements the windows are built from (WeatherData fields the
\* scores read).  A sample with soil moisture also has solar radiation.
SampleKinds ==
    {[rainfall |-> 0, temperature |-> 41, soil_moisture |-> None,
      rainfall_rate |-> None, data_quality |-> 10],
     [rainfall |-> 10, temperature |-> 30, soil_moisture |-> None,
      rainfall_rate |-> None, data_quality |-> 5],
     [rainfall |-> 11, temperature |-> 41, soil_moisture |-> None,
      rainfall_rate |-> None, data_quality |-> 10],
     [rainfall |-> 260, temperature |-> 36, soil_moisture |-> 95,
      rainfall_rate |-> 230, data_quality |-> 0]}

RunKinds ==
    {[rainfall |-> 0, temperature |-> 41, soil_moisture |-> 20,
      rainfall_rate |-> None, data_quality |-> 10],
     [rainfall |-> 40, temperature |-> 30, soil_moisture |-> None,
      rainfall_rate |-> 6, data_quality |-> 10]}

Sample(day, kind) ==
    [day |-> day, rainfall |-> kind.rainfall, temperature |-> kind.temperature,
     soil_moisture |-> kind.soil_moisture, rainfall_rate |-> kind.rainfall_rate,
     data_quality |-> kind.data_quality]

\* Windows of up to MaxIdxSamples samples in timestamp order over the days
\* 1..MaxIdxDay (several samples on a day and days without a sample occur).
ShortWindows ==
    UNION {{[i \in 1..n |-> Sample(days[i], kinds[i])] :
               days \in {d \in [1..n -> 1..MaxIdxDay] :
                            \A i \in 1..n : i < n => d[i] <= d[i + 1]},
               kinds \in [1..n -> SampleKinds]} : n \in 0..MaxIdxSamples}

\* Windows of MaxRunDays days with one sample a day.
LongWindows ==
    {[i \in 1..MaxRunDays |-> Sample(i, kinds[i])] : kinds \in [1..MaxRunDays -> RunKinds]}

NoResult == [error |-> "not_called"]

InitIndex ==
    /\ idxSamples \in ShortWindows \cup LongWindows
    /\ idxDays = IF Len(idxSamples) = MaxRunDays THEN MaxRunDays ELSE MaxIdxDay
    /\ idxResult = NoResult
    /\ idxTask = [outcome |-> "none", stored |-> FALSE, cached |-> FALSE]

DayKeys(s) == {s[i].day : i \in DOMAIN s}

\* _aggregate_daily_rainfall
AggregateDailyRainfall(s) ==
    [d \in DayKeys(s) |->
        Sum([i \in DOMAIN s |-> s[i].rainfall], {i \in DOMAIN s : s[i].day = d})]

\* _aggregate_daily_max_temperature
AggregateDailyMaxTemperature(s) ==
    [d \in DayKeys(s) |-> MaxOf({s[i].temperature : i \in {j \in DOMAIN s : s[j].day = d}})]

\* The loop shared by _calculate_consecutive_dry_days, _wet_days and _hot_days:
\* the longest run of hits over the sorted day keys.
RECURSIVE LongestRun(_, _, _, _)
LongestRun(hit, i, current_consecutive, max_consecutive) ==
    IF i > Len(hit) THEN max_consecutive
    ELSE IF hit[i]
      THEN LongestRun(hit, i + 1, current_consecutive + 1,
                      Max(max_consecutive, current_consecutive + 1))
    ELSE LongestRun(hit, i + 1, 0, max_consecutive)

ConsecutiveDryDays(daily_rainfall) ==
    LET sorted_days == SortedKeys(DOMAIN daily_rainfall)
    IN LongestRun([i \in DOMAIN sorted_days |-> daily_rainfall[sorted_days[i]] < 1], 1, 0, 0)

ConsecutiveWetDays(daily_rainfall) ==
    LET sorted_days == SortedKeys(DOMAIN daily_rainfall)
    IN LongestRun([i \in DOMAIN sorted_days |-> daily_rainfall[sorted_days[i]] > 10], 1, 0, 0)

ConsecutiveHotDays(daily_max_temps, threshold) ==
    LET sorted_days == SortedKeys(DOMAIN daily_max_temps)
    IN LongestRun([i \in DOMAIN sorted_days |-> daily_max_temps[sorted_days[i]] > threshold], 1, 0, 0)

\* Whether a day's rainfall ends the count of days since significant rain.
SignificantRain(mm) == mm > 10

\* _calculate_days_since_significant_rain: the index, in the day keys sorted
\* descending, of the first day with significant rain; their number if none.
\* end_date is not read.
DaysSinceSignificantRain(daily_rainfall, end_date) ==
    LET sorted_days == SortedKeys(DOMAIN daily_rainfall)
        n == Len(sorted_days)
        hits == {i \in 1..n : SignificantRain(daily_rainfall[sorted_days[i]])}
    IN IF hits = {} THEN n ELSE n - MaxOf(hits)

\* _calculate_cumulative_rainfall
CumulativeRainfall(daily_rainfall, days) ==
    LET sorted_days == SortedKeys(DOMAIN daily_rainfall)
        n == Len(sorted_days)
    IN IF n < days
         THEN Sum(daily_rainfall, DOMAIN daily_rainfall)
       ELSE MaxOf({0} \cup
                  {Sum([j \in 0..(days - 1) |-> daily_rainfall[sorted_days[i + j]]],
                       0..(days - 1)) : i \in 1..(n - days + 1)})

\* A mean is kept as the pair of its numerator and denominator; the mean of
\* no value (None in the code) has count 0.
Mean(values, S) == [sum |-> Sum(values, S), count |-> Cardinality(S)]

\* _calculate_drought_score; soil_moisture is a mean.
DroughtScore(rainfall_deficit, consecutive_dry, days_since_rain, soil_moisture) ==
    LET deficit == IF rainfall_deficit > 0
                     THEN Min((4 * ScoreOne) \div 10, (rainfall_deficit * ScoreOne) \div 100)
                   ELSE 0
        dry == IF consecutive_dry >= drought_days_threshold
                 THEN Min((3 * ScoreOne) \div 10,
                          ((consecutive_dry - drought_days_threshold) * ScoreOne) \div 20)
               ELSE 0
        since == Min((2 * ScoreOne) \div 10, (days_since_rain * ScoreOne) \div 30)
        soil == IF soil_moisture.count = 0 THEN 0
                ELSE IF soil_moisture.sum < 30 * soil_moisture.count THEN ScoreOne \div 10
                ELSE IF soil_moisture.sum < 50 * soil_moisture.count THEN ScoreOne \div 20
                ELSE 0
    IN Min(ScoreOne, deficit + dry + since + soil)

\* _calculate_flood_score
FloodScore(max_daily, cumulative_3day, max_intensity, consecutive_wet, soil_saturation) ==
    LET daily == IF max_daily > flood_daily_threshold
                   THEN Min((3 * ScoreOne) \div 10,
                            ((max_daily - flood_daily_threshold) * ScoreOne) \div 100)
                 ELSE 0
        cumulative == IF cumulative_3day > 100
                        THEN Min((3 * ScoreOne) \div 10,
                                 ((cumulative_3day - 100) * ScoreOne) \div 200)
                      ELSE 0
        intensity == IF max_intensity > flood_intensity_threshold
                       THEN Min((2 * ScoreOne) \div 10,
                                ((max_intensity - flood_intensity_threshold) * ScoreOne) \div 20)
                     ELSE 0
        wet == IF consecutive_wet >= 5
                 THEN Min(ScoreOne \div 10, (consecutive_wet * ScoreOne) \div 10)
               ELSE 0
        soil == IF soil_saturation # None /\ soil_saturation > 90 THEN ScoreOne \div 10 ELSE 0
    IN Min(ScoreOne, daily + cumulative + intensity + wet + soil)

\* _calculate_heat_stress_score with the average component inverted
\* ((40 - avg_max_temp) / 10).
HeatStressScoreInvertedAverage(max_temp, avg_max_temp, consecutive_hot, extreme_days) ==
    LET maximum == IF max_temp > heat_temp_threshold
                     THEN Min((3 * ScoreOne) \div 10,
                              ((max_temp - heat_temp_threshold) * ScoreOne) \div 15)
                   ELSE 0
        average == IF avg_max_temp.sum > 30 * avg_max_temp.count
                     THEN Min((2 * ScoreOne) \div 10,
                              ((40 * avg_max_temp.count - avg_max_temp.sum) * ScoreOne)
                                  \div (10 * avg_max_temp.count))
                   ELSE 0
        hot == IF consecutive_hot >= heat_days_threshold
                 THEN Min((3 * ScoreOne) \div 10,
                          ((consecutive_hot - heat_days_threshold) * ScoreOne) \div 10)
               ELSE 0
        extreme == IF extreme_days > 0
                     THEN Min((2 * ScoreOne) \div 10, (extreme_days * ScoreOne) \div 5)
                   ELSE 0
    IN Min(ScoreOne, maximum + average + hot + extreme)

\* _calculate_heat_stress_score; avg_max_temp is a mean.  heat_dd is not read.
HeatStressScore(max_temp, avg_max_temp, consecutive_hot, extreme_days) ==
    LET maximum == IF max_temp > heat_temp_threshold
                     THEN Min((3 * ScoreOne) \div 10,
                              ((max_temp - heat_temp_threshold) * ScoreOne) \div 15)
                   ELSE 0
        average == IF avg_max_temp.sum > 30 * avg_max_temp.count
                     THEN Min((2 * ScoreOne) \div 10,
                              ((avg_max_temp.sum - 30 * avg_max_temp.count) * ScoreOne)
                                  \div (10 * avg_max_temp.count))
                   ELSE 0
        hot == IF consecutive_hot >= heat_days_threshold
                 THEN Min((3 * ScoreOne) \div 10,
                          ((consecutive_hot - heat_days_threshold) * ScoreOne) \div 10)
               ELSE 0
        extreme == IF extreme_days > 0
                     THEN Min((2 * ScoreOne) \div 10, (extreme_days * ScoreOne) \div 5)
                   ELSE 0
    IN Min(ScoreOne, maximum + average + hot + extreme)

\* _calculate_drought_index (the fields the claims read)
DroughtIndex(s, days) ==
    LET daily_rainfall == AggregateDailyRainfall(s)
        expected_rainfall == drought_rainfall_threshold * days
        actual_rainfall == Sum(daily_rainfall, DOMAIN daily_rainfall)
        rainfall_deficit == Max(0, expected_rainfall - actual_rainfall)
        soil_moisture_data == {i \in DOMAIN s : s[i].soil_moisture # None}
        soil_moisture_level == Mean([i \in DOMAIN s |-> s[i].soil_moisture], soil_moisture_data)
        days_since_significant == DaysSinceSignificantRain(daily_rainfall, days)
    IN [days_since_significant_rain |-> days_since_significant,
        drought_score |-> DroughtScore(rainfall_deficit, ConsecutiveDryDays(daily_rainfall),
                                       days_since_significant, soil_moisture_level)]

\* _calculate_flood_index (the fields the claims read)
FloodIndex(s) ==
    LET daily_rainfall == AggregateDailyRainfall(s)
        max_daily == IF DOMAIN daily_rainfall = {} THEN 0
                     ELSE MaxOf({daily_rainfall[d] : d \in DOMAIN daily_rainfall})
        cumulative_3day == CumulativeRainfall(daily_rainfall, 3)
        rates == {s[i].rainfall_rate : i \in {j \in DOMAIN s :
                      s[j].rainfall_rate # None /\ s[j].rainfall_rate # 0}}
        max_intensity == IF rates = {} THEN 0 ELSE MaxOf(rates)
        soil_moisture_data == {s[i].soil_moisture : i \in {j \in DOMAIN s :
                                   s[j].soil_moisture # None /\ s[j].soil_moisture # 0}}
        soil_saturation == IF soil_moisture_data = {} THEN None ELSE MaxOf(soil_moisture_data)
    IN [cumulative_3day_rainfall |-> cumulative_3day,
        cumulative_7day_rainfall |-> CumulativeRainfall(daily_rainfall, 7),
        flood_score |-> FloodScore(max_daily, cumulative_3day, max_intensity,
                                   ConsecutiveWetDays(daily_rainfall), soil_saturation)]

\* _calculate_heat_stress_index (the fields the claims read)
HeatStressIndex(s) ==
    LET daily_max_temps == AggregateDailyMaxTemperature(s)
        max_temp == IF DOMAIN daily_max_temps = {} THEN 0
                    ELSE MaxOf({daily_max_temps[d] : d \in DOMAIN daily_max_temps})
        avg_max_temp == Mean(daily_max_temps, DOMAIN daily_max_temps)
        extreme_heat_days == Cardinality({d \in DOMAIN daily_max_temps : daily_max_temps[d] > 40})
    IN [max_temperature |-> max_temp,
        heat_stress_score |-> HeatStressScore(max_temp, avg_max_temp,
                                  ConsecutiveHotDays(daily_max_temps, 35), extreme_heat_days)]

\* The window with one more sample of the given temperature on the given day
\* (get_weather_data returns the rows ordered by time).
WithSample(s, day, temperature) ==
    LET before == SelectSeq(s, LAMBDA x : x.day <= day)
        after == SelectSeq(s, LAMBDA x : x.day > day)
    IN before
       \o <<[day |-> day, rainfall |-> 0, temperature |-> temperature, soil_moisture |-> None,
             rainfall_rate |-> None, data_quality |-> 10]>>
       \o after

\* The compounding test of _calculate_composite_stress.
Compounding(drought_score, heat_score) ==
    drought_score > (4 * ScoreOne) \div 10 /\ heat_score > (4 * ScoreOne) \div 10

\* _calculate_composite_stress without the min(1.0, ...) of the compounding branch.
CompositeStressUnclamped(drought_score, flood_score, heat_score) ==
    IF Compounding(drought_score, heat_score)
      THEN [composite |-> drought_score + heat_score \div 2, dominant |-> "combined"]
    ELSE [composite |-> Max(Max(drought_score, flood_score), heat_score), dominant |-> "none"]

\* _calculate_composite_stress
CompositeStress(drought_score, flood_score, heat_score) ==
    IF Compounding(drought_score, heat_score)
      THEN [composite |-> Min(ScoreOne, drought_score + heat_score \div 2),
            dominant |-> "combined"]
    ELSE LET max_score == Max(Max(drought_score, flood_score), heat_score)
         IN [composite |-> max_score,
             dominant |->
                 IF max_score = drought_score /\ drought_score > (3 * ScoreOne) \div 10
                   THEN "drought"
                 ELSE IF max_score = flood_score /\ flood_score > (3 * ScoreOne) \div 10
                   THEN "flood"
                 ELSE IF max_score = heat_score /\ heat_score > (3 * ScoreOne) \div 10
                   THEN "heat"
                 ELSE "none"]

\* _calculate_data_quality and _calculate_confidence
Confidence(s) ==
    LET data_quality == Mean([i \in DOMAIN s |-> s[i].data_quality], DOMAIN s)
        quality_component ==
            IF data_quality.count = 0 THEN 0
            ELSE (data_quality.sum * 7 * ScoreOne) \div (100 * data_quality.count)
        quantity_component == Min((3 * ScoreOne) \div 10, (Len(s) * 3 * ScoreOne) \div 1000)
    IN quality_component + quantity_component

\* Whether calculate_weather_indices refuses the window.
NoWeatherDataAlwaysAccepted(s) == FALSE
NoWeatherData(s) == s = <<>>

\* calculate_weather_indices: the WeatherIndices returned, or the error raised.
CalculateWeatherIndices(s, days) ==
    IF NoWeatherData(s) THEN [error |-> "ValueError_no_weather_data"]
    ELSE LET drought == DroughtIndex(s, days)
             flood == FloodIndex(s)
             heat == HeatStressIndex(s)
             stress == CompositeStress(drought.drought_score, flood.flood_score,
                                       heat.heat_stress_score)
         IN [error |-> "none", drought |-> drought, flood |-> flood, heat_stress |-> heat,
             composite_stress_score |-> stress.composite,
             dominant_stress |-> stress.dominant,
             confidence_score |-> Confidence(s)]

\* WeatherProcessor.calculate_weather_indices is called on the window.
CalculateIndices ==
    /\ idxResult = NoResult
    /\ idxResult' = CalculateWeatherIndices(idxSamples, idxDays)
    /\ UNCHANGED <<idxSamples, idxDays, idxTask>>
    /\ UNCHANGED <<coreVars, retryVars, tableVars, beatVars, sweepVars, storeVars, biomassVars, cacheVars, historyVars, wsVars, loopVars, trigVars, payoutVars>>

\* _process_weather_indices on the window get_weather_data returned: it raises
\* ValueError on an empty one; otherwise it calls
\* timescale_client.store_weather_indices, which TimescaleClient does not
\* define, before it reaches redis_cache.set.
ProcessWeatherIndices ==
    /\ idxTask.outcome = "none"
    /\ idxTask' =
           IF idxSamples = <<>>
             THEN [outcome |-> "ValueError_no_weather_data", stored |-> FALSE, cached |-> FALSE]
           ELSE IF CalculateWeatherIndices(idxSamples, idxDays).error # "none"
             THEN [outcome |-> CalculateWeatherIndices(idxSamples, idxDays).error,
                   stored |-> FALSE, cached |-> FALSE]
           ELSE [outcome |-> "AttributeError", stored |-> FALSE, cached |-> FALSE]
    /\ UNCHANGED <<idxSamples, idxDays, idxResult>>
    /\ UNCHANGED <<coreVars, retryVars, tableVars, beatVars, sweepVars, storeVars, biomassVars, cacheVars, historyVars, wsVars, loopVars, trigVars, payoutVars>>

NextIndex ==
    \/ CalculateIndices
    \/ ProcessWeatherIndices


(***************************************************************************)
(* Biomass reducer: the statistics of PlanetClient.get_biomass_timeseries  *)
(* over the parsed deliveries.  biomass_proxy is kept in tenths.           *)
(***************************************************************************)
MaxBioSamples == 6

BiomassValues == {0, 2, 5}

NoBiomassResult == [error |-> "not_called"]

InitBiomass ==
    /\ bioValues \in UNION {[1..n -> BiomassValues] : n \in 0..MaxBioSamples}
    /\ bioResult = NoBiomassResult

\* baseline_data = biomass_values[:min(5, len(biomass_values))]
BaselineData(biomass_values) == SubSeq(biomass_values, 1, Min(5, Len(biomass_values)))

\* Whether a division by this divisor raises: Python raises ZeroDivisionError
\* on a float division by 0.0.
DivisionRaises(divisor) == divisor = 0

\* biomass_trend = max(-1.0, min(1.0, slope * 10)), in thousandths; the slope
\* is the least-squares slope of the values against their index.
BiomassTrend(biomass_values) ==
    LET n == Len(biomass_values)
        x == [i \in 1..n |-> i - 1]
        sum_x == Sum(x, 1..n)
        sum_y == Sum(biomass_values, 1..n)
        sum_xy == Sum([i \in 1..n |-> x[i] * biomass_values[i]], 1..n)
        sum_x2 == Sum([i \in 1..n |-> x[i] * x[i]], 1..n)
    IN IF n > 1
         THEN Max(0 - 1000, Min(1000, (1000 * (n * sum_xy - sum_x * sum_y))
                                          \div (n * sum_x2 - sum_x * sum_x)))
       ELSE 0

\* get_biomass_timeseries from "Sort by date" on: the BiomassTimeseries
\* returned (the statistics; deviation_percent rounded down), or the error
\* raised.
BiomassTimeseries(biomass_values) ==
    IF biomass_values = <<>> THEN [error |-> "ValueError_no_biomass_data"]
    ELSE LET baseline_data == BaselineData(biomass_values)
             baseline_sum == Sum(baseline_data, DOMAIN baseline_data)
             current_biomass == biomass_values[Len(biomass_values)]
             all == {biomass_values[i] : i \in DOMAIN biomass_values}
         IN IF DivisionRaises(baseline_sum)
              THEN [error |-> "ZeroDivisionError"]
            ELSE [error |-> "none",
                  current_biomass |-> current_biomass,
                  baseline_biomass |-> [sum |-> baseline_sum, count |-> Len(baseline_data)],
                  min_biomass |-> CHOOSE v \in all : \A w \in all : v <= w,
                  max_biomass |-> MaxOf(all),
                  biomass_trend |-> BiomassTrend(biomass_values),
                  deviation_percent |->
                      ((baseline_sum - Len(baseline_data) * current_biomass) * 100)
                          \div baseline_sum]

\* get_biomass_timeseries is called for the subscription.
GetBiomassTimeseries ==
    /\ bioResult = NoBiomassResult
    /\ bioResult' = BiomassTimeseries(bioValues)
    /\ UNCHANGED bioValues
    /\ UNCHANGED <<coreVars, retryVars, tableVars, beatVars, sweepVars, storeVars, indexVars, cacheVars, historyVars, wsVars, loopVars, trigVars, payoutVars>>

NextBiomass ==
    GetBiomassTimeseries


(***************************************************************************)
(* biomass_data_cache of one plot with one active subscription:            *)
(* _fetch_latest_biomass_async and _cleanup_old_cache_async                *)
(***************************************************************************)
MaxObservations == 11
MaxCacheNow == 2
CacheTickDays == 50

\* biomass_data.timeseries[-10:]
KeepLast == 10
\* datetime.utcnow() - timedelta(days=90)
RetentionDays == 90

InitCache ==
    /\ cacheNow = 0
    /\ observed = 0
    /\ bioCache = {}

CacheTick ==
    /\ cacheNow < MaxCacheNow * CacheTickDays
    /\ cacheNow' = cacheNow + CacheTickDays
    /\ UNCHANGED <<observed, bioCache>>
    /\ UNCHANGED <<coreVars, retryVars, tableVars, beatVars, sweepVars, storeVars, indexVars, biomassVars, historyVars, wsVars, loopVars, trigVars, payoutVars>>

\* The upstream subscription delivers the sample of one more observation date.
Deliver ==
    /\ observed < MaxObservations
    /\ observed' = observed + 1
    /\ UNCHANGED <<cacheNow, bioCache>>
    /\ UNCHANGED <<coreVars, retryVars, tableVars, beatVars, sweepVars, storeVars, indexVars, biomassVars, historyVars, wsVars, loopVars, trigVars, payoutVars>>

\* The observation dates of biomass_data.timeseries[-10:].
LastObservations(n) == {d \in 1..n : d > n - KeepLast}

\* INSERT INTO biomass_data_cache ... ON CONFLICT (plot_id, observation_date)
\* DO UPDATE SET ..., fetched_at = EXCLUDED.fetched_at, for each of the dates.
Upsert(rows, dates, now) ==
    {r \in rows : r.observation_date \notin dates}
        \cup {[observation_date |-> d, fetched_at |-> now] : d \in dates}

\* _fetch_latest_biomass_async for the subscription: when
\* get_biomass_timeseries raises, the error is logged and nothing is written.
FetchLatestBiomass(raises) ==
    /\ bioCache' = IF raises \/ observed = 0 THEN bioCache
                   ELSE Upsert(bioCache, LastObservations(observed), cacheNow)
    /\ UNCHANGED <<cacheNow, observed>>
    /\ UNCHANGED <<coreVars, retryVars, tableVars, beatVars, sweepVars, storeVars, indexVars, biomassVars, historyVars, wsVars, loopVars, trigVars, payoutVars>>

\* _cleanup_old_cache_async: DELETE FROM biomass_data_cache WHERE fetched_at < $1
CleanupOldCache ==
    /\ bioCache' = {r \in bioCache : ~(r.fetched_at < cacheNow - RetentionDays)}
    /\ UNCHANGED <<cacheNow, observed>>
    /\ UNCHANGED <<coreVars, retryVars, tableVars, beatVars, sweepVars, storeVars, indexVars, biomassVars, historyVars, wsVars, loopVars, trigVars, payoutVars>>

NextCache ==
    \/ CacheTick
    \/ Deliver
    \/ \E raises \in BOOLEAN : FetchLatestBiomass(raises)
    \/ CleanupOldCache


(***************************************************************************)
(* WeatherXMClient.get_historical_weather: the samples of a window from    *)
(* the nearest stations                                                    *)
(***************************************************************************)
MaxStations == 4
MaxHistTime == 2

\* for station in stations[:3]
NearestStations == 3

\* One record of the upstream's "data" list; a record without a readable
\* "timestamp" makes _parse_weather_record return None.
Record(t) == [parses |-> TRUE, timestamp |-> t]
Unparsable == [parses |-> FALSE, timestamp |-> 0]

\* What GET /api/v1/stations/{id}/data may answer for the window: the
\* upstream chooses the records, inside the window or not.
StationResponses(start_date, end_date) ==
    { [status |-> "HTTPError", data |-> <<>>],
      [status |-> "ok", data |-> <<>>],
      [status |-> "ok", data |-> <<Record(start_date)>>],
      [status |-> "ok", data |-> <<Record(end_date + 1)>>],
      [status |-> "ok", data |-> <<Record(end_date), Record(start_date - 1)>>],
      [status |-> "ok", data |-> <<Unparsable, Record(end_date)>>] }

NotCalled == [called |-> FALSE, samples |-> <<>>]

InitHistory ==
    /\ histWindow \in {[start_date |-> s, end_date |-> e] :
                           s \in 1..MaxHistTime, e \in 1..MaxHistTime}
    /\ histWindow.start_date <= histWindow.end_date
    /\ \E n \in 0..MaxStations :
           histStations \in
               [status : {"ok", "HTTPError"},
                stations : [1..n -> StationResponses(histWindow.start_date,
                                                     histWindow.end_date)]]
    /\ histStations.status = "HTTPError" => histStations.stations = <<>>
    /\ histReturned = NotCalled

\* _parse_weather_record over data.get("data", []), None results dropped.
ParseWeatherRecords(data) ==
    LET parsed == SelectSeq(data, LAMBDA record : record.parses)
    IN  [i \in 1..Len(parsed) |-> [timestamp |-> parsed[i].timestamp]]

\* get_station_data: the parsed records of the response; an HTTP error is
\* raised to the caller after the retries.
GetStationData(response) ==
    IF response.status = "ok"
    THEN [raises |-> FALSE, samples |-> ParseWeatherRecords(response.data)]
    ELSE [raises |-> TRUE, samples |-> <<>>]

\* The loop over stations[:3]: extend with each station's samples, continue
\* past a station that raises.
RECURSIVE CollectStations(_)
CollectStations(stations) ==
    IF stations = <<>>
    THEN <<>>
    ELSE LET weather_data == GetStationData(Head(stations))
         IN  (IF weather_data.raises THEN <<>> ELSE weather_data.samples)
                 \o CollectStations(Tail(stations))

HistoricalWeather(nearby) ==
    IF nearby.status # "ok" \/ nearby.stations = <<>>
    THEN <<>>
    ELSE LET nearest == SubSeq(nearby.stations, 1,
                               Min(Len(nearby.stations), NearestStations))
         IN  SortSeq(CollectStations(nearest),
                     LAMBDA a, b : a.timestamp < b.timestamp)

GetHistoricalWeather ==
    /\ ~histReturned.called
    /\ histReturned' = [called |-> TRUE, samples |-> HistoricalWeather(histStations)]
    /\ UNCHANGED <<histWindow, histStations>>
    /\ UNCHANGED <<coreVars, retryVars, tableVars, beatVars, sweepVars, storeVars, indexVars, biomassVars, cacheVars, wsVars, loopVars, trigVars, payoutVars>>

NextHistory == GetHistoricalWeather

(***************************************************************************)
(* api/websocket.py: ConnectionManager, the endpoints that register and    *)
(* unregister their socket, and one broadcast at a time.  The manager runs *)
(* on one event loop: another coroutine runs only while the broadcast is   *)
(* suspended in await connection.send_text(message).                       *)
(***************************************************************************)
NumSockets == 3

Sockets == 1..NumSockets
WsPlots == {"P1", "P2"}
\* plot_id = None
NoPlot == "none"

BroadcastIdle ==
    [pc |-> "idle", target |-> NoPlot, used |-> 0, iter |-> {}, detached |-> FALSE,
     visited |-> {}, current |-> 0, delivered |-> {}, disconnected |-> {},
     stayed |-> {}]

\* ConnectionManager.__init__; a key of active_connections is present exactly
\* when its set is not empty.
InitWs ==
    /\ active_connections = [p \in WsPlots |-> {}]
    /\ all_connections = {}
    /\ wsEndpoints = [s \in Sockets |-> "new"]
    /\ bcast = BroadcastIdle

\* The set object a suspended broadcast iterates, after websocket was added
\* to (add = TRUE) or discarded from the set of plot_id / from all_connections.
IteratedSet(b, websocket, plot_id, add) ==
    IF b.pc = "suspended"
         /\ (b.target = "all" \/ (b.target = plot_id /\ ~b.detached))
    THEN LET iter == IF add THEN b.iter \cup {websocket} ELSE b.iter \ {websocket}
         IN  [b EXCEPT !.iter = iter,
                       !.detached = b.target # "all" /\ iter = {},
                       !.stayed = IF add THEN @ ELSE @ \ {websocket}]
    ELSE b

\* websocket_plot_updates / websocket_alerts: await manager.connect(...)
WsConnect(websocket, plot_id) ==
    /\ wsEndpoints[websocket] = "new"
    /\ wsEndpoints' = [wsEndpoints EXCEPT ![websocket] = plot_id]
    /\ all_connections' = all_connections \cup {websocket}
    /\ active_connections' =
           IF plot_id = NoPlot THEN active_connections
           ELSE [active_connections EXCEPT ![plot_id] = @ \cup {websocket}]
    /\ bcast' = IteratedSet(bcast, websocket, plot_id, TRUE)
    /\ UNCHANGED <<coreVars, retryVars, tableVars, beatVars, sweepVars, storeVars, indexVars, biomassVars, cacheVars, historyVars, loopVars, trigVars, payoutVars>>

\* ConnectionManager.disconnect(websocket, plot_id) for each socket of a set.
ManagerDisconnect(active, connections, plot_id) ==
    IF plot_id = NoPlot THEN active
    ELSE [active EXCEPT ![plot_id] = @ \ connections]

\* The endpoint's except clause: manager.disconnect(websocket, plot_id) with
\* the plot_id the endpoint connected with.
WsDisconnect(websocket) ==
    LET plot_id == wsEndpoints[websocket]
    IN  /\ plot_id \notin {"new", "closed"}
        /\ wsEndpoints' = [wsEndpoints EXCEPT ![websocket] = "closed"]
        /\ all_connections' = all_connections \ {websocket}
        /\ active_connections' = ManagerDisconnect(active_connections, {websocket}, plot_id)
        /\ bcast' = IteratedSet(bcast, websocket, plot_id, FALSE)
        /\ UNCHANGED <<coreVars, retryVars, tableVars, beatVars, sweepVars, storeVars, indexVars, biomassVars, cacheVars, historyVars, loopVars, trigVars, payoutVars>>

\* broadcast_to_plot(message, target) or broadcast_all(message) up to its
\* first await: the iterator is created over the set and yields a socket.
\* Without a key for the plot, or over an empty set, the call returns.
BroadcastStart(target) ==
    LET connections == IF target = "all" THEN all_connections
                       ELSE active_connections[target]
    IN  /\ bcast.pc # "suspended"
        /\ connections # {}
        /\ \E connection \in connections :
               bcast' = [BroadcastIdle EXCEPT
                            !.pc = "suspended", !.target = target,
                            !.used = Cardinality(connections),
                            !.iter = connections, !.current = connection,
                            !.stayed = connections]
        /\ UNCHANGED <<active_connections, all_connections, wsEndpoints>>
        /\ UNCHANGED <<coreVars, retryVars, tableVars, beatVars, sweepVars, storeVars, indexVars, biomassVars, cacheVars, historyVars, loopVars, trigVars, payoutVars>>

\* The send returns or raises (the socket goes to disconnected), then the for
\* statement asks the iterator for the next socket: RuntimeError (set changed
\* size during iteration), outside the try, when the size of the set differs
\* from the size at the start; the next socket and the next await; or the
\* end of the loop and disconnect(connection, plot_id) for the failed ones,
\* disconnect(connection) in broadcast_all.
SendReturns(ok) ==
    LET b == [bcast EXCEPT
                 !.visited = @ \cup {bcast.current},
                 !.delivered = IF ok THEN @ \cup {bcast.current} ELSE @,
                 !.disconnected = IF ok THEN @ ELSE @ \cup {bcast.current}]
        rest == b.iter \ b.visited
    IN  /\ bcast.pc = "suspended"
        /\ IF Cardinality(b.iter) # b.used
             THEN /\ bcast' = [b EXCEPT !.pc = "raised"]
                  /\ UNCHANGED <<active_connections, all_connections>>
             ELSE IF rest = {}
             THEN /\ bcast' = [b EXCEPT !.pc = "done"]
                  /\ all_connections' = all_connections \ b.disconnected
                  /\ active_connections' =
                         ManagerDisconnect(active_connections, b.disconnected,
                                           IF b.target = "all" THEN NoPlot ELSE b.target)
             ELSE /\ \E connection \in rest :
                         bcast' = [b EXCEPT !.current = connection]
                  /\ UNCHANGED <<active_connections, all_connections>>
        /\ UNCHANGED wsEndpoints
        /\ UNCHANGED <<coreVars, retryVars, tableVars, beatVars, sweepVars, storeVars, indexVars, biomassVars, cacheVars, historyVars, loopVars, trigVars, payoutVars>>

NextWs ==
    \/ \E websocket \in Sockets, plot_id \in WsPlots \cup {NoPlot} :
           WsConnect(websocket, plot_id)
    \/ \E websocket \in Sockets : WsDisconnect(websocket)
    \/ \E target \in WsPlots \cup {"all"} : BroadcastStart(target)
    \/ \E ok \in BOOLEAN : SendReturns(ok)

(***************************************************************************)
(* One execution of fetch_all_weather_updates over the plots its query     *)
(* returns: the per-plot try / except of _fetch_all_weather_updates and    *)
(* the try / except of the task function around it.                        *)
(***************************************************************************)
MaxLoopPlots == 3

\* How the iteration for one plot goes: the marker exists; the sample is
\* stored; get_current_weather returns None (no station, no data, or an
\* upstream error it has caught); store_weather_data raises.
PlotOutcomes == {"recently_fetched", "stored", "no_data", "upstream_error",
                 "store_error"}

LoopQueued == [pc |-> "queued", index |-> 1, success |-> 0, failed |-> 0,
               processed |-> {}]

InitLoop ==
    /\ \E n \in 0..MaxLoopPlots : loopPlots \in [1..n -> PlotOutcomes]
    /\ loopRun = LoopQueued

\* An iteration without the try / except around it.
PlotResultWithoutExcept(outcome) ==
    [raises |-> outcome = "store_error",
     success |-> IF outcome = "stored" THEN 1 ELSE 0,
     failed |-> IF outcome \in {"no_data", "upstream_error"} THEN 1 ELSE 0]

\* What one iteration of the loop does with the counters and whether an
\* exception leaves it: continue; success_count += 1; failed_count += 1 in
\* the else branch; failed_count += 1 in except Exception.
PlotResult(outcome) ==
    [raises |-> FALSE,
     success |-> IF outcome = "stored" THEN 1 ELSE 0,
     failed |-> IF outcome \in {"no_data", "upstream_error", "store_error"}
                THEN 1 ELSE 0]

\* plots = await timescale_client.execute_query(query), before the loop: an
\* exception here leaves _fetch_all_weather_updates and the task function
\* raises self.retry(exc=exc).  With no plots the result is returned.
LoopQuery(fails) ==
    /\ loopRun.pc = "queued"
    /\ loopRun' = [loopRun EXCEPT !.pc = IF fails THEN "retry"
                                         ELSE IF loopPlots = <<>> THEN "returned"
                                         ELSE "looping"]
    /\ UNCHANGED loopPlots
    /\ UNCHANGED <<coreVars, retryVars, tableVars, beatVars, sweepVars, storeVars, indexVars, biomassVars, cacheVars, historyVars, wsVars, trigVars, payoutVars>>

\* One iteration of for plot in plots; after the last one the function
\* returns the counts.
LoopProcessPlot ==
    LET result == PlotResult(loopPlots[loopRun.index])
    IN  /\ loopRun.pc = "looping"
        /\ loopRun' =
               IF result.raises
               THEN [loopRun EXCEPT !.pc = "retry"]
               ELSE [pc |-> IF loopRun.index = Len(loopPlots) THEN "returned"
                            ELSE "looping",
                     index |-> loopRun.index + 1,
                     success |-> loopRun.success + result.success,
                     failed |-> loopRun.failed + result.failed,
                     processed |-> loopRun.processed \cup {loopRun.index}]
        /\ UNCHANGED loopPlots
        /\ UNCHANGED <<coreVars, retryVars, tableVars, beatVars, sweepVars, storeVars, indexVars, biomassVars, cacheVars, historyVars, wsVars, trigVars, payoutVars>>

NextLoop ==
    \/ \E fails \in BOOLEAN : LoopQuery(fails)
    \/ LoopProcessPlot

(***************************************************************************)
(* The two trigger sweeps, check_weather_triggers and                      *)
(* process_pending_assessments, on one plot of an active policy with one   *)
(* weather_indices row at or above the damage threshold, written at time   *)
(* 0.  The clock counts minutes.                                           *)
(***************************************************************************)
MaxTrigFirings == 3

\* crontab(minute="*/10") of both beat entries
TrigPeriod == 10
\* wi.timestamp > NOW() - INTERVAL '1 hour'
TriggerLookBack == 60
\* wi.timestamp > NOW() - INTERVAL '2 hours'
PendingLookBack == 120

TrigSweeps == {"check-weather-triggers", "process-pending-assessments"}

InitTrig ==
    /\ trigNow = 0
    /\ trigFired = {}
    /\ trigEnqueued = 0
    /\ trigQueued = 0
    /\ trigAssessed = FALSE

\* Ten minutes pass: beat fires both entries again.
TrigTick ==
    /\ trigNow < MaxTrigFirings * TrigPeriod
    /\ trigFired = TrigSweeps
    /\ trigNow' = trigNow + TrigPeriod
    /\ trigFired' = {}
    /\ UNCHANGED <<trigEnqueued, trigQueued, trigAssessed>>
    /\ UNCHANGED <<coreVars, retryVars, tableVars, beatVars, sweepVars, storeVars, indexVars, biomassVars, cacheVars, historyVars, wsVars, loopVars, payoutVars>>

\* The WHERE clause of either query for the plot: the row is inside the
\* look-back window and no damage_assessments row of the plot ends within
\* the last day.
SelectedBySweep(sweep, now, assessed) ==
    /\ now < (IF sweep = "check-weather-triggers" THEN TriggerLookBack
              ELSE PendingLookBack)
    /\ ~assessed

\* One execution of a trigger sweep: the query, then
\* calculate_damage_assessment.delay(...) for each plot it returned.
TrigSweep(sweep) ==
    /\ sweep \notin trigFired
    /\ trigFired' = trigFired \cup {sweep}
    /\ IF SelectedBySweep(sweep, trigNow, trigAssessed)
         THEN /\ trigEnqueued' = trigEnqueued + 1
              /\ trigQueued' = trigQueued + 1
         ELSE UNCHANGED <<trigEnqueued, trigQueued>>
    /\ UNCHANGED <<trigNow, trigAssessed>>
    /\ UNCHANGED <<coreVars, retryVars, tableVars, beatVars, sweepVars, storeVars, indexVars, biomassVars, cacheVars, historyVars, wsVars, loopVars, payoutVars>>

\* A worker runs one queued calculate_damage_assessment to its end: it
\* stores the damage_assessments row, or it fails before the INSERT.
TrigBundleRun(stores) ==
    /\ trigQueued > 0
    /\ trigQueued' = trigQueued - 1
    /\ trigAssessed' = (trigAssessed \/ stores)
    /\ UNCHANGED <<trigNow, trigFired, trigEnqueued>>
    /\ UNCHANGED <<coreVars, retryVars, tableVars, beatVars, sweepVars, storeVars, indexVars, biomassVars, cacheVars, historyVars, wsVars, loopVars, payoutVars>>

NextTrig ==
    \/ TrigTick
    \/ \E sweep \in TrigSweeps : TrigSweep(sweep)
    \/ \E stores \in BOOLEAN : TrigBundleRun(stores)

(***************************************************************************)
(* process_pending_payouts on one damage_assessments row: the runs of the  *)
(* sweep, which may overlap, and the hand-over of the assessment to the    *)
(* on-chain task queue.                                                    *)
(***************************************************************************)
NumPayoutRuns == 3

PayoutRuns == 1..NumPayoutRuns

RunIdle == [pc |-> "idle", result |-> "none"]

\* The row as _calculate_damage_assessment stored it.
InitPayout ==
    /\ payoutRow \in [is_triggered : BOOLEAN,
                      payout_status : {"pending", "approved"},
                      requires_manual_review : BOOLEAN,
                      ipfs_cid : {"null", "cid"}]
    /\ payoutRuns = [r \in PayoutRuns |-> RunIdle]
    /\ handedOver = 0

\* The WHERE clause of the sweep's SELECT.
PendingPayout(row) ==
    /\ row.is_triggered
    /\ row.payout_status = "pending"
    /\ ~row.requires_manual_review
    /\ row.ipfs_cid # "null"

\* A run of the sweep executes its SELECT: the row is in pending_payouts or
\* the run returns.
PayoutSelect(r) ==
    /\ payoutRuns[r].pc \in {"idle", "done"}
    /\ payoutRuns' = [payoutRuns EXCEPT ![r] =
           IF PendingPayout(payoutRow)
           THEN [pc |-> "selected", result |-> "none"]
           ELSE [pc |-> "done", result |-> "not_selected"]]
    /\ UNCHANGED <<payoutRow, handedOver>>
    /\ UNCHANGED <<coreVars, retryVars, tableVars, beatVars, sweepVars, storeVars, indexVars, biomassVars, cacheVars, historyVars, wsVars, loopVars, trigVars>>

\* The iteration for the row: the import, assess_damage_on_chain.delay(...),
\* then the UPDATE to 'pending_blockchain' WHERE assessment_id = $4; any
\* exception, of the import or of the UPDATE, is logged by except Exception.
PayoutIteration(r, updateFails) ==
    /\ payoutRuns[r].pc = "selected"
    /\ IF ~WorkersBlockchainTasksExists
         THEN /\ payoutRuns' = [payoutRuns EXCEPT ![r] =
                     [pc |-> "done", result |-> "import_error"]]
              /\ UNCHANGED <<payoutRow, handedOver>>
         ELSE /\ handedOver' = handedOver + 1
              /\ payoutRow' = IF updateFails THEN payoutRow
                              ELSE [payoutRow EXCEPT !.payout_status = "pending_blockchain"]
              /\ payoutRuns' = [payoutRuns EXCEPT ![r] =
                     [pc |-> "done",
                      result |-> IF updateFails THEN "update_error" ELSE "submitted"]]
    /\ UNCHANGED <<coreVars, retryVars, tableVars, beatVars, sweepVars, storeVars, indexVars, biomassVars, cacheVars, historyVars, wsVars, loopVars, trigVars>>

NextPayout ==
    \/ \E r \in PayoutRuns : PayoutSelect(r)
    \/ \E r \in PayoutRuns, updateFails \in BOOLEAN : PayoutIteration(r, updateFails)

(***************************************************************************)
(* Specifications                                                          *)
(***************************************************************************)
\* A subsystem that takes no part in a specification rests in one state.
SubOff ==
    /\ subStatus = "active"
    /\ subEnd = 1
    /\ subUpdatedAt = 0
    /\ subHistory = <<>>
    /\ subNow = 0
    /\ checkPc = "idle"
    /\ expPc = "idle"
    /\ cmdPc = "idle"

TaskOff == InitTask

BundleOff ==
    /\ bundNow = 0
    /\ weatherRows = {}
    /\ satCount = 0
    /\ assessments = {}
    /\ published = {}
    /\ invocations = [s \in Slots |-> NoInvocation]

WxOff == InitWx

ApiOff == InitApi

RetryOff == InitRetry

TableOff == InitTable

BeatOff == InitBeat

SweepOff == InitSweep

StoreOff == InitStore

IndexOff == idxSamples = <<>> /\ idxDays = 1 /\ idxResult = NoResult /\ idxTask = [outcome |-> "none", stored |-> FALSE, cached |-> FALSE]

BiomassOff == bioValues = <<>> /\ bioResult = NoBiomassResult

CacheOff == InitCache

HistoryOff == histWindow = [start_date |-> 1, end_date |-> 1] /\ histStations = [status |-> "ok", stations |-> <<>>] /\ histReturned = NotCalled

WsOff == InitWs

LoopOff == loopPlots = <<>> /\ loopRun = LoopQueued

TrigOff == InitTrig

PayoutOff == payoutRow = [is_triggered |-> FALSE, payout_status |-> "pending", requires_manual_review |-> FALSE, ipfs_cid |-> "null"] /\ payoutRuns = [r \in PayoutRuns |-> RunIdle] /\ handedOver = 0

CoreOff == SubOff /\ TaskOff /\ BundleOff /\ WxOff /\ ApiOff
ExtOff == RetryOff /\ TableOff /\ BeatOff /\ SweepOff /\ StoreOff /\ IndexOff /\ BiomassOff /\ CacheOff /\ HistoryOff /\ WsOff /\ LoopOff /\ TrigOff /\ PayoutOff

SubInit == InitSub /\ TaskOff /\ BundleOff /\ WxOff /\ ApiOff /\ ExtOff
SpecSub == SubInit /\ [][NextSub]_vars

TaskInit == InitTask /\ SubOff /\ BundleOff /\ WxOff /\ ApiOff /\ ExtOff
SpecTask == TaskInit /\ [][NextTask]_vars

BundleInit == InitBundle /\ SubOff /\ TaskOff /\ WxOff /\ ApiOff /\ ExtOff
SpecBundle == BundleInit /\ [][NextBundle]_vars

WxInit == InitWx /\ SubOff /\ TaskOff /\ BundleOff /\ ApiOff /\ ExtOff
SpecWx == WxInit /\ [][NextWx]_vars

ApiInit == InitApi /\ SubOff /\ TaskOff /\ BundleOff /\ WxOff /\ ExtOff
SpecApi == ApiInit /\ [][NextApi]_vars

RetryInit == InitRetry /\ CoreOff /\ TableOff /\ BeatOff /\ SweepOff /\ StoreOff /\ IndexOff /\ BiomassOff /\ CacheOff /\ HistoryOff /\ WsOff /\ LoopOff /\ TrigOff /\ PayoutOff
SpecRetry == RetryInit /\ [][NextRetry]_vars

TableInit == InitTable /\ CoreOff /\ RetryOff /\ BeatOff /\ SweepOff /\ StoreOff /\ IndexOff /\ BiomassOff /\ CacheOff /\ HistoryOff /\ WsOff /\ LoopOff /\ TrigOff /\ PayoutOff
SpecTable == TableInit /\ [][NextTable]_vars

\* Beat keeps running: time passes and every entry of the schedule fires
\* again and again.
BeatInit == InitBeat /\ CoreOff /\ RetryOff /\ TableOff /\ SweepOff /\ StoreOff /\ IndexOff /\ BiomassOff /\ CacheOff /\ HistoryOff /\ WsOff /\ LoopOff /\ TrigOff /\ PayoutOff
SpecBeat ==
    /\ BeatInit
    /\ [][NextBeat]_vars
    /\ WF_vars(BeatTick)
    /\ \A entry \in BeatSchedule : WF_vars(BeatFire(entry))

SweepInit == InitSweep /\ CoreOff /\ RetryOff /\ TableOff /\ BeatOff /\ StoreOff /\ IndexOff /\ BiomassOff /\ CacheOff /\ HistoryOff /\ WsOff /\ LoopOff /\ TrigOff /\ PayoutOff
SpecSweep == SweepInit /\ [][NextSweep]_vars

StoreInit == InitStore /\ CoreOff /\ RetryOff /\ TableOff /\ BeatOff /\ SweepOff /\ IndexOff /\ BiomassOff /\ CacheOff /\ HistoryOff /\ WsOff /\ LoopOff /\ TrigOff /\ PayoutOff
SpecStore == StoreInit /\ [][NextStore]_vars

IndexInit == InitIndex /\ CoreOff /\ RetryOff /\ TableOff /\ BeatOff /\ SweepOff /\ StoreOff /\ BiomassOff /\ CacheOff /\ HistoryOff /\ WsOff /\ LoopOff /\ TrigOff /\ PayoutOff
SpecIndex == IndexInit /\ [][NextIndex]_vars

BiomassInit == InitBiomass /\ CoreOff /\ RetryOff /\ TableOff /\ BeatOff /\ SweepOff /\ StoreOff /\ IndexOff /\ CacheOff /\ HistoryOff /\ WsOff /\ LoopOff /\ TrigOff /\ PayoutOff
SpecBiomass == BiomassInit /\ [][NextBiomass]_vars

CacheInit == InitCache /\ CoreOff /\ RetryOff /\ TableOff /\ BeatOff /\ SweepOff /\ StoreOff /\ IndexOff /\ BiomassOff /\ HistoryOff /\ WsOff /\ LoopOff /\ TrigOff /\ PayoutOff
SpecCache == CacheInit /\ [][NextCache]_vars

HistoryInit == InitHistory /\ CoreOff /\ RetryOff /\ TableOff /\ BeatOff /\ SweepOff /\ StoreOff /\ IndexOff /\ BiomassOff /\ CacheOff /\ WsOff /\ LoopOff /\ TrigOff /\ PayoutOff
SpecHistory == HistoryInit /\ [][NextHistory]_vars

WsInit == InitWs /\ CoreOff /\ RetryOff /\ TableOff /\ BeatOff /\ SweepOff /\ StoreOff /\ IndexOff /\ BiomassOff /\ CacheOff /\ HistoryOff /\ LoopOff /\ TrigOff /\ PayoutOff
SpecWs == WsInit /\ [][NextWs]_vars

LoopInit == InitLoop /\ CoreOff /\ RetryOff /\ TableOff /\ BeatOff /\ SweepOff /\ StoreOff /\ IndexOff /\ BiomassOff /\ CacheOff /\ HistoryOff /\ WsOff /\ TrigOff /\ PayoutOff
SpecLoop == LoopInit /\ [][NextLoop]_vars

TrigInit == InitTrig /\ CoreOff /\ RetryOff /\ TableOff /\ BeatOff /\ SweepOff /\ StoreOff /\ IndexOff /\ BiomassOff /\ CacheOff /\ HistoryOff /\ WsOff /\ LoopOff /\ PayoutOff
SpecTrig == TrigInit /\ [][NextTrig]_vars

PayoutInit == InitPayout /\ CoreOff /\ RetryOff /\ TableOff /\ BeatOff /\ SweepOff /\ StoreOff /\ IndexOff /\ BiomassOff /\ CacheOff /\ HistoryOff /\ WsOff /\ LoopOff /\ TrigOff
SpecPayout == PayoutInit /\ [][NextPayout]_vars

(***************************************************************************)
(* Claims                                                                  *)
(***************************************************************************)
\* C1: once the stored status is cancelled, expired or failed it never changes
\* to any other value, for any interleaving of the two sweeps and cancel commands.
C1_TerminalStatusNeverChanges ==
    [][(subStatus \in Terminal) => (subStatus' = subStatus)]_vars

\* C2: two publications of the same task kind with the same idempotency key
\* (no time passes in SpecTask, so both lie within any dedup window) lead to
\* one execution of the body: the second publication is absorbed.
C2_SameKeyExecutesOnce ==
    \A i, j \in TaskIds :
        (i # j /\ tasks[i].kind = tasks[j].kind /\ tasks[i].payload = tasks[j].payload)
            => ~(tasks[i].runs > 0 /\ tasks[j].runs > 0)

\* C9: the body of a task instance executes at most max_retries + 1 times.
C9_RunsAtMostMaxRetriesPlusOne ==
    \A i \in TaskIds : tasks[i].runs <= MaxRetries(tasks[i].kind) + 1

\* C9 (amended): the retries counter of a task instance never exceeds
\* max_retries and at most max_retries + 1 of its executions end by raising.
C9_RaisedAtMostMaxRetriesPlusOne ==
    \A i \in TaskIds :
        /\ tasks[i].retries <= MaxRetries(tasks[i].kind)
        /\ tasks[i].raised <= MaxRetries(tasks[i].kind) + 1

\* C9 witness: a task failed for good after max_retries + 1 raising executions,
\* having also been executed once more because its worker was lost.
C9_Witness ==
    \E i \in TaskIds :
        /\ tasks[i].state = "failure"
        /\ tasks[i].raised = MaxRetries(tasks[i].kind) + 1
        /\ tasks[i].runs > tasks[i].raised

\* C10: a task that failed on its last permitted attempt has a quarantine row
\* with status failed and the payload it was published with.
C10_FailedTaskIsQuarantined ==
    \A i \in TaskIds :
        tasks[i].state = "failure" =>
            \E row \in quarantine :
                /\ row.task = i
                /\ row.status = "failed"
                /\ row.payload = tasks[i].payload

\* Two invocations that returned for the same plot, policy and window endpoints.
SameBundle(s, t) ==
    /\ s # t
    /\ invocations[s].pc = "returned"
    /\ invocations[t].pc = "returned"
    /\ invocations[s].plot = invocations[t].plot
    /\ invocations[s].policy = invocations[t].policy
    /\ invocations[s].start = invocations[t].start
    /\ invocations[s].end = invocations[t].end

\* C3: after two invocations for the same (plot, policy, window) the assessment
\* table holds exactly one row for it.
C3_TwoCallsOneAssessmentRow ==
    \A s, t \in Slots :
        SameBundle(s, t) =>
            Cardinality({a \in assessments :
                            /\ a.plot_id = invocations[s].plot
                            /\ a.policy_id = invocations[s].policy
                            /\ a.start = invocations[s].start
                            /\ a.end = invocations[s].end}) = 1

\* C4: two invocations with the same plot, policy, window endpoints and rows
\* produce the same assessment_id and the same document.
C4_SameInputsSameDocument ==
    \A s, t \in Slots :
        SameBundle(s, t) =>
            /\ invocations[s].doc.assessment_id = invocations[t].doc.assessment_id
            /\ invocations[s].doc = invocations[t].doc

\* C5: over any sliding 60-second window the client issues at most RateLimit
\* upstream requests, whatever the number of coroutines sharing it.
C5_AtMostRPerMinute ==
    Len(Recent(wxIssued, wxNow)) <= RateLimit

\* C7: an attempt is repeated only after a Transient failure (network error,
\* 5xx, 429) and never after a Permanent one (other 4xx, decode error);
\* timeouts are the subject of C8.
C7_RetryOnlyAfterTransient ==
    \A c \in Coros :
        coros[c].prev # "timeout" =>
            coros[c].prev \in {"none", "network", "http5xx", "http429"}

\* C8: a call whose request timed out is not attempted again by the client.
C8_NoRetryAfterTimeout ==
    \A c \in Coros : coros[c].prev # "timeout"

C11_NoDataFailsWithoutRetry ==
    [][\A k \in JobKinds :
          (jobs[k].state = "running" /\ jobs'[k].state \in {"queued", "failure"}
              /\ jobs'[k].ended = "ValueError_no_data")
          => (jobs'[k].state = "failure" /\ jobs'[k].retries = jobs[k].retries)]_vars

\* C12: an execution cancelled by the soft time limit is enqueued again with
\* its retries counter unchanged.
C12_SoftLimitKeepsRetryBudget ==
    [][\A k \in JobKinds :
          (jobs[k].state = "running" /\ jobs'[k].state \in {"queued", "failure"}
              /\ jobs'[k].ended = "SoftTimeLimitExceeded")
          => (jobs'[k].state = "queued" /\ jobs'[k].retries = jobs[k].retries)]_vars

\* C13: every plot has at most one subscription row whose status is active.
C13_AtMostOneActivePerPlot ==
    \A plot \in SubPlots :
        Cardinality({i \in TableIds : /\ subsTable[i].plot_id = plot
                                      /\ subsTable[i].status = "active"}) <= 1

\* C14: a sweep whose SELECT runs when the subscription is already in a
\* terminal status passes the row by: it makes no upstream call for it and
\* leaves its status, its update timestamp and its history rows unchanged.
C14_SweepOfTerminalIsNoOp ==
    [][/\ (subStatus \in Terminal /\ checkPc = "idle" /\ checkPc' # checkPc)
           => checkPc' = "skipped"
       /\ (subStatus \in Terminal /\ expPc = "idle" /\ expPc' # expPc)
           => expPc' = "skipped"
       /\ ((checkPc = "skipped" /\ checkPc' # checkPc)
            \/ (expPc = "skipped" /\ expPc' # expPc))
           => /\ UNCHANGED <<subStatus, subUpdatedAt, subHistory>>
              /\ checkPc' \in {checkPc, "idle"}
              /\ expPc' \in {expPc, "idle"}]_vars

\* C14 witness: both sweeps have run their SELECT on a terminal subscription.
C14_Witness ==
    /\ subStatus \in Terminal
    /\ checkPc = "skipped"
    /\ expPc = "skipped"

\* C15: a subscription leaves status active for status cancelled only by the
\* UPDATE of an explicit cancel command; the end date being reached leads to
\* status expired, whichever sweep processes the subscription.
C15_CancelledOnlyByCommand ==
    [][(subStatus = "active" /\ subStatus' # "active")
          => IF cmdPc = "cancelled_upstream" /\ cmdPc' = "idle"
               THEN subStatus' = "cancelled"
               ELSE subStatus' = "expired"]_vars

\* C16: under the configured schedule an active subscription whose end date
\* has passed eventually reaches a terminal status, no command being issued.
C16_EndReachedEventuallyTerminal ==
    (beatSubStatus = "active" /\ beatNow > beatSubEnd) ~> (beatSubStatus \in Terminal)

\* C17: executions of the sweep that overlap do not both fetch and store a
\* sample for the plot within the dedup window: any two stored samples of the
\* plot lie at least the marker's TTL apart.
C17_OneSamplePerDedupWindow ==
    \A a, b \in samples :
        a.by # b.by => (a.at - b.at >= MarkerTTL \/ b.at - a.at >= MarkerTTL)

\* C18: when the firing at time t stored a sample for the plot before the
\* next firing was due, the firing at t + 5 minutes does not pass the plot by.
C18_NextFiringFetchesAgain ==
    \A n \in Firings :
        (/\ n > 1
         /\ execs[n].pc = "done"
         /\ \E a \in samples : a.by = n - 1 /\ a.at < FiredAt(n))
            => execs[n].result # "skipped"

\* C19: a stored sample or derived row is never modified or deleted: every
\* row of weather_data and satellite_images stays as it is, also when a
\* process opens its connection to the store.
C19_StoredRowsStay ==
    [][weatherData \subseteq weatherData' /\ satelliteImages \subseteq satelliteImages']_vars

C21_CompositeRule ==
    idxResult.error = "none" =>
        LET d == idxResult.drought.drought_score
            f == idxResult.flood.flood_score
            h == idxResult.heat_stress.heat_stress_score
            m == Max(Max(d, f), h)
            attaining == {n \in {"drought", "flood", "heat"} :
                             \/ n = "drought" /\ d = m
                             \/ n = "flood" /\ f = m
                             \/ n = "heat" /\ h = m}
        IN IF d >= (4 * ScoreOne) \div 10 /\ h >= (4 * ScoreOne) \div 10
             THEN /\ idxResult.composite_stress_score = Min(ScoreOne, d + h \div 2)
                  /\ idxResult.dominant_stress = "combined"
           ELSE /\ idxResult.composite_stress_score = m
                /\ IF m > (3 * ScoreOne) \div 10
                     THEN idxResult.dominant_stress \in attaining
                   ELSE idxResult.dominant_stress = "none"

\* C22: for every non-empty window the drought, flood and heat sub-indices,
\* the composite score and the confidence of the returned WeatherIndices lie
\* in [0, 1].
C22_ScoresInUnitRange ==
    idxResult.error = "none" =>
        /\ idxResult.drought.drought_score \in 0..ScoreOne
        /\ idxResult.flood.flood_score \in 0..ScoreOne
        /\ idxResult.heat_stress.heat_stress_score \in 0..ScoreOne
        /\ idxResult.composite_stress_score \in 0..ScoreOne
        /\ idxResult.confidence_score \in 0..ScoreOne

\* A window whose compounded drought and heat exceed 1 before the clamp.
C22_Witness ==
    /\ idxResult.error = "none"
    /\ idxResult.dominant_stress = "combined"
    /\ idxResult.drought.drought_score + idxResult.heat_stress.heat_stress_score \div 2 > ScoreOne
    /\ idxResult.composite_stress_score = ScoreOne

\* Temperatures of the added sample.
HotterTemps == {36, 41, 46}

\* C23: a strictly hotter sample for one day of the window, everything else
\* unchanged, never lowers the heat sub-index.
C23_HotterSampleNeverLowersHeat ==
    idxResult.error = "none" =>
        \A d \in DayKeys(idxSamples) : \A t \in HotterTemps :
            t > AggregateDailyMaxTemperature(idxSamples)[d] =>
                HeatStressIndex(WithSample(idxSamples, d, t)).heat_stress_score
                    >= idxResult.heat_stress.heat_stress_score

\* A run of hot days with one cooler day: the hotter sample for that day
\* makes the run longer than heat_days_threshold and raises the score.
C23_Witness ==
    /\ idxResult.error = "none"
    /\ \E d \in DayKeys(idxSamples) : \E t \in HotterTemps :
          /\ t > AggregateDailyMaxTemperature(idxSamples)[d]
          /\ ConsecutiveHotDays(AggregateDailyMaxTemperature(idxSamples), 35)
                 <= heat_days_threshold
          /\ ConsecutiveHotDays(AggregateDailyMaxTemperature(WithSample(idxSamples, d, t)), 35)
                 > heat_days_threshold
          /\ HeatStressIndex(WithSample(idxSamples, d, t)).heat_stress_score
                 > idxResult.heat_stress.heat_stress_score

\* C24: over a window without samples the computation fails with the
\* "No weather data" error, in the processor and in the task, and the task
\* neither stores nor caches a WeatherIndices value.
C24_EmptyWindowFails ==
    idxSamples = <<>> =>
        /\ idxResult # NoResult => idxResult.error = "ValueError_no_weather_data"
        /\ idxTask.outcome # "none" =>
               /\ idxTask.outcome = "ValueError_no_weather_data"
               /\ ~idxTask.stored
               /\ ~idxTask.cached

C24_Witness ==
    /\ idxSamples = <<>>
    /\ idxResult.error = "ValueError_no_weather_data"
    /\ idxTask.outcome = "ValueError_no_weather_data"

RainOfDays(daily_rainfall, d, k) ==
    Sum(daily_rainfall, {x \in DOMAIN daily_rainfall : d <= x /\ x < d + k})

\* C26: the 3-day and 7-day cumulative rainfall the engine reports is the
\* largest rainfall of any k consecutive days of the period, and the rainfall
\* of the whole period when fewer than k days have samples.
C26_CumulativeIsSlidingWindowMax ==
    idxResult.error = "none" =>
        LET daily_rainfall == AggregateDailyRainfall(idxSamples)
            n == Cardinality(DOMAIN daily_rainfall)
            Expected(k) ==
                IF n < k THEN Sum(daily_rainfall, DOMAIN daily_rainfall)
                ELSE MaxOf({RainOfDays(daily_rainfall, d, k) : d \in (2 - k)..MaxRunDays})
        IN /\ idxResult.flood.cumulative_3day_rainfall = Expected(3)
           /\ idxResult.flood.cumulative_7day_rainfall = Expected(7)

\* C27: the days since significant rain the engine reports are the trailing
\* days of the window, counted back from its end date, whose rainfall is
\* strictly below 10 mm; a day with 10 mm or more ends the count.
C27_DaysSinceCountsBelowTen ==
    idxResult.error = "none" =>
        LET daily_rainfall == AggregateDailyRainfall(idxSamples)
            RainOn(d) == IF d \in DOMAIN daily_rainfall THEN daily_rainfall[d] ELSE 0
            ending == {d \in 1..idxDays : RainOn(d) >= 10}
        IN idxResult.drought.days_since_significant_rain =
               IF ending = {} THEN idxDays ELSE idxDays - MaxOf(ending)

\* C28: when the mean of the first min(5, n) samples is 0 the reducer returns
\* a summary whose deviation is 0; it does not fail.
C28_ZeroBaselineGivesZeroDeviation ==
    (/\ bioResult # NoBiomassResult
     /\ bioValues # <<>>
     /\ \A i \in DOMAIN BaselineData(bioValues) : bioValues[i] = 0)
        => (bioResult.error = "none" /\ bioResult.deviation_percent = 0)

\* C29: after any sequence of biomass fetch runs the store holds at most the
\* 10 most recent biomass samples of the plot.
C29_AtMostTenSamplesPerPlot ==
    Cardinality(bioCache) <= KeepLast

\* C30: every sample get_historical_weather returned for the window
\* [start_date, end_date] has its timestamp inside the window, whatever
\* records the upstream answered.
C30_ReturnedSamplesInsideWindow ==
    histReturned.called =>
        \A i \in 1..Len(histReturned.samples) :
            /\ histWindow.start_date <= histReturned.samples[i].timestamp
            /\ histReturned.samples[i].timestamp <= histWindow.end_date

\* C35: whenever the rate-limit counter key exists and no handler is between
\* its increment and its expire call, the key carries an expiry.
C35_CounterKeyCarriesExpiry ==
    (rlCount > 0 /\ \A h \in Handlers : handlers[h].pc = "idle")
        => rlExpireAt # 0 - 1

\* C36: a handler whose counter increment failed (current = None) gets True
\* from check_rate_limit and enqueues the task: the request is accepted.
C36_IncrementFailureAllows ==
    [][\A h \in Handlers :
          (handlers[h].pc = "incremented" /\ handlers[h].current = None
              /\ handlers'[h].pc = "idle")
          => /\ lastAnswer'.answer = "accepted"
             /\ apiAccepted' = Append(apiAccepted, apiNow)]_vars

\* C36 witness: a request whose increment failed has been accepted.
C36_Witness ==
    /\ lastAnswer.answer = "accepted"
    /\ lastAnswer.current = None
    /\ Len(apiAccepted) > 0

\* C38: when the upstream cancel failed, neither the cancel command nor the
\* end-date sweep writes anything for the subscription: the stored status, the
\* update timestamp and the status-history rows are as they were.
C38_FailedCancelWritesNothing ==
    [][/\ ((cmdPc = "idle" /\ cmdPc' = "failed") \/ (cmdPc = "failed" /\ cmdPc' = "idle"))
           => UNCHANGED <<subStatus, subUpdatedAt, subHistory>>
       /\ ((expPc = "fetched" /\ expPc' = "failed") \/ (expPc = "failed" /\ expPc' = "idle"))
           => UNCHANGED <<subStatus, subUpdatedAt, subHistory>>]_vars

\* C38 witness: the upstream cancel has failed for the command and for the
\* sweep, and the subscription is still active without a history row.
C38_Witness ==
    /\ cmdPc = "failed"
    /\ expPc = "failed"
    /\ subStatus = "active"
    /\ subHistory = <<>>

\* C39: every subscription live at the upstream provider has a row in
\* planet_subscriptions.
C39_UpstreamSubscriptionHasRecord ==
    \A id \in planetSubs : \E i \in TableIds : subsTable[i].subscription_id = id

\* C33: every socket listed under a plot in active_connections is also in
\* all_connections, whenever no broadcast is running.
C33_PlotSocketsAreConnected ==
    bcast.pc # "suspended"
        => \A p \in WsPlots : active_connections[p] \subseteq all_connections

\* C34: a broadcast_to_plot that has ended, normally or not, has sent to
\* every socket that was registered for the plot from its start to its end.
C34_BroadcastReachesStayingSockets ==
    (bcast.pc \in {"done", "raised"} /\ bcast.target \in WsPlots)
        => bcast.stayed \subseteq bcast.delivered \cup bcast.disconnected

\* The plots of the sweep whose iteration met a failure.
FailingPlots ==
    {i \in 1..Len(loopPlots) :
        loopPlots[i] \in {"no_data", "upstream_error", "store_error"}}

\* C37: a failure while one plot is processed does not stop the sweep: the
\* task is retried only when the query before the loop failed, every plot
\* before the current one has been processed, and a sweep that has returned
\* has processed every plot and counted each failing plot as failed.
C37_PlotFailureDoesNotStopSweep ==
    /\ loopRun.pc = "retry" => loopRun.index = 1
    /\ loopRun.pc \in {"looping", "returned"}
           => loopRun.processed = 1..(loopRun.index - 1)
    /\ loopRun.pc = "returned"
           => /\ loopRun.processed = 1..Len(loopPlots)
              /\ loopRun.failed = Cardinality(FailingPlots)

\* C37 witness: a sweep has returned after a plot failed and a later plot was
\* stored.
C37_Witness ==
    /\ loopRun.pc = "returned"
    /\ \E i, j \in 1..Len(loopPlots) :
           /\ i < j
           /\ loopPlots[i] = "store_error"
           /\ loopPlots[j] = "stored"
    /\ loopRun.success > 0

====
